---- MODULE Spec2Model ----
(***************************************************************************)
(* A model of the CLRS pseudocode tool chain: the value model and the      *)
(* builtins, the lowering of parse trees to the linear IR, the single-step *)
(* virtual machine that runs the IR, and the tree interpreter.             *)
(*                                                                         *)
(* Conventions.                                                            *)
(*   - An Option<T> is a sequence of length 0 (None) or 1 (Some).          *)
(*   - A Number is an f64 in the source.  The model keeps the numbers of   *)
(*     the grid k/2: the field val counts halves, so 1 is val = 2 and 1.5  *)
(*     is val = 3.  Sums, differences, comparisons, floor and ceil are     *)
(*     exact on the grid; products and quotients are exact whenever the    *)
(*     f64 result lies on the grid, which holds in every program below.    *)
(*   - An Array value is Rc<RefCell<(Vec<Value>, Value)>>: the model keeps *)
(*     a heap of cells and an Array value holds the address of its cell,   *)
(*     so that cloning the Rc copies the address and not the cell.         *)
(*   - Instruction indices and the frame cursor are 0-based as in the      *)
(*     source; instructions[i + 1] is the instruction of index i.          *)
(***************************************************************************)
EXTENDS Integers, Sequences, FiniteSets, TLC

----------------------------------------------------------------------------
(* Option<T> *)

None == << >>

Some(x) == << x >>

IsSome(o) == Len(o) = 1

Unwrap(o) == o[1]

\* `let x = v;` of the source: v is computed once, and F is what follows
Let(v, F(_)) == CHOOSE y \in {F(x) : x \in {v}} : TRUE

----------------------------------------------------------------------------
(* interpreter/value.rs: Value *)

Number(halves) == [tag |-> "Number", val |-> halves]

Num(n) == Number(n + n)

Boolean(b) == [tag |-> "Boolean", val |-> IF b THEN 1 ELSE 0]

NoneValue == [tag |-> "None", val |-> 0]

Array(address) == [tag |-> "Array", val |-> address]

\* f64::fract() != 0.0 on the grid of halves
fract(v) == v.val % 2

\* `n as usize` of an f64: truncation toward zero, saturating at 0
as_usize(v) == IF v.val <= 0 THEN 0 ELSE v.val \div 2

\* #[derive(PartialEq)] on Value: variant and payload; an Array compares the
\* borrowed (elements, heapsize) pairs of the two cells.
RECURSIVE value_eq(_, _, _, _)
value_eq(heapA, a, heapB, b) ==
    IF a.tag # b.tag THEN FALSE
    ELSE IF a.tag # "Array" THEN a.val = b.val
    ELSE LET ca == heapA[a.val]
             cb == heapB[b.val]
         IN  /\ Len(ca.elements) = Len(cb.elements)
             /\ \A i \in 1..Len(ca.elements) :
                    value_eq(heapA, ca.elements[i], heapB, cb.elements[i])
             /\ value_eq(heapA, ca.heapsize, heapB, cb.heapsize)

----------------------------------------------------------------------------
(* interpreter/builtin.rs.  A builtin returns Result<Value, RuntimeError>:   *)
(* st is "ok" or "err".  Builtins that touch an array take the heap, and the *)
(* ones that change or allocate a cell return the new heap.                  *)

Ok(v) == [st |-> "ok", v |-> v]

Err == [st |-> "err", v |-> NoneValue]

Panic == [st |-> "panic", v |-> NoneValue]

IsNumber(v) == v.tag = "Number"

builtin_add(args) ==
    IF Len(args) # 2 THEN Err
    ELSE IF IsNumber(args[1]) /\ IsNumber(args[2])
         THEN Ok(Number(args[1].val + args[2].val)) ELSE Err

builtin_sub(args) ==
    IF Len(args) # 2 THEN Err
    ELSE IF IsNumber(args[1]) /\ IsNumber(args[2])
         THEN Ok(Number(args[1].val - args[2].val)) ELSE Err

builtin_mul(args) ==
    IF Len(args) # 2 THEN Err
    ELSE IF IsNumber(args[1]) /\ IsNumber(args[2])
         THEN Ok(Number((args[1].val * args[2].val) \div 2)) ELSE Err

\* a / b on the grid; the programs of the model never divide by zero
builtin_div(args) ==
    IF Len(args) # 2 THEN Err
    ELSE IF IsNumber(args[1]) /\ IsNumber(args[2]) /\ args[2].val # 0
         THEN Ok(Number((2 * args[1].val) \div args[2].val)) ELSE Err

builtin_greater_than(args) ==
    IF Len(args) # 2 THEN Err
    ELSE IF IsNumber(args[1]) /\ IsNumber(args[2])
         THEN Ok(Boolean(args[1].val > args[2].val)) ELSE Err

builtin_less_than(args) ==
    IF Len(args) # 2 THEN Err
    ELSE IF IsNumber(args[1]) /\ IsNumber(args[2])
         THEN Ok(Boolean(args[1].val < args[2].val)) ELSE Err

builtin_greater_than_equal(args) ==
    IF Len(args) # 2 THEN Err
    ELSE IF IsNumber(args[1]) /\ IsNumber(args[2])
         THEN Ok(Boolean(args[1].val >= args[2].val)) ELSE Err

builtin_less_than_equal(args) ==
    IF Len(args) # 2 THEN Err
    ELSE IF IsNumber(args[1]) /\ IsNumber(args[2])
         THEN Ok(Boolean(args[1].val <= args[2].val)) ELSE Err

builtin_equality(heap, args) ==
    IF Len(args) # 2 THEN Err
    ELSE Ok(Boolean(value_eq(heap, args[1], heap, args[2])))

builtin_inequality(heap, args) ==
    IF Len(args) # 2 THEN Err
    ELSE Ok(Boolean(~ value_eq(heap, args[1], heap, args[2])))

builtin_assert_eq(heap, args) ==
    IF Len(args) # 2 THEN Err
    ELSE IF value_eq(heap, args[1], heap, args[2]) THEN Ok(NoneValue) ELSE Err

\* Array(v1, ..., vn): a fresh cell with those elements and heapsize Number 0
builtin_array(heap, args) ==
    [st |-> "ok", v |-> Array(Len(heap) + 1),
     heap |-> Append(heap, [elements |-> args, heapsize |-> Num(0)])]

\* the text written to stdout is not part of the model
builtin_print(args) == Ok(NoneValue)

builtin_floor(args) ==
    IF Len(args) # 1 THEN Err
    ELSE IF IsNumber(args[1]) THEN Ok(Number(2 * (args[1].val \div 2))) ELSE Err

builtin_ceil(args) ==
    IF Len(args) # 1 THEN Err
    ELSE IF IsNumber(args[1]) THEN Ok(Number(2 * ((args[1].val + 1) \div 2))) ELSE Err

\* 1-based read of an element
builtin_indexing(heap, args) ==
    IF Len(args) # 2 THEN Err
    ELSE LET a == args[1]
             b == args[2]
         IN  IF a.tag # "Array" THEN Err
             ELSE IF b.tag # "Number" THEN Err
             ELSE IF ~ (fract(b) = 0 /\ b.val > 0) THEN Err
             ELSE IF as_usize(b) - 1 < Len(heap[a.val].elements)
                  THEN Ok(heap[a.val].elements[as_usize(b)])
                  ELSE Err

\* builtin_mutable_indexing with the fault of writing to a copy of the cell
builtin_mutable_indexing_copy(heap, args, value_to_assign) ==
    IF Len(args) # 2 THEN [st |-> "err", heap |-> heap]
    ELSE IF args[1].tag # "Array" \/ args[2].tag # "Number" THEN [st |-> "err", heap |-> heap]
    ELSE IF fract(args[2]) # 0 \/ args[2].val <= 0 THEN [st |-> "err", heap |-> heap]
    ELSE IF as_usize(args[2]) - 1 < Len(heap[args[1].val].elements)
         THEN [st |-> "ok", heap |-> Append(heap, [heap[args[1].val] EXCEPT
                                         !.elements[as_usize(args[2])] = value_to_assign])]
         ELSE [st |-> "err", heap |-> heap]

\* 1-based write of an element, through the shared cell
builtin_mutable_indexing(heap, args, value_to_assign) ==
    IF Len(args) # 2 THEN [st |-> "err", heap |-> heap]
    ELSE LET a == args[1]
             b == args[2]
         IN  IF a.tag # "Array" THEN [st |-> "err", heap |-> heap]
             ELSE IF b.tag # "Number" THEN [st |-> "err", heap |-> heap]
             ELSE IF ~ (fract(b) = 0 /\ b.val > 0) THEN [st |-> "err", heap |-> heap]
             ELSE IF as_usize(b) - 1 < Len(heap[a.val].elements)
                  THEN [st |-> "ok",
                        heap |-> [heap EXCEPT ![a.val].elements[as_usize(b)] = value_to_assign]]
                  ELSE [st |-> "err", heap |-> heap]

builtin_member_access(heap, arg0, member) ==
    IF arg0.tag # "Array" THEN Err
    ELSE IF member = "length" THEN Ok(Num(Len(heap[arg0.val].elements)))
    ELSE IF member = "heapsize" THEN Ok(heap[arg0.val].heapsize)
    ELSE Err

builtin_mutable_member_access(heap, arg0, member, value) ==
    IF arg0.tag # "Array" THEN [st |-> "err", heap |-> heap]
    ELSE IF member = "length" THEN [st |-> "err", heap |-> heap]
    ELSE IF member = "heapsize"
         THEN [st |-> "ok", heap |-> [heap EXCEPT ![arg0.val].heapsize = value]]
         ELSE [st |-> "err", heap |-> heap]

----------------------------------------------------------------------------
(* parser/parsetree.rs: ParseTreeNode.  A token is kept as its text and its *)
(* source line.  children, statements and ifs are sequences; an absent      *)
(* else_block is None.                                                      *)

Function(line, name, arguments, block) ==
    [kind |-> "Function", line |-> line, name |-> name,
     arguments |-> arguments, block |-> block]

Block(statements) == [kind |-> "Block", statements |-> statements]

ReturnStatement(line, expression) ==
    [kind |-> "ReturnStatement", line |-> line, expression |-> Some(expression)]

IdentifierValue(line, text) ==
    [kind |-> "IdentifierValue", line |-> line, text |-> text]

NumericValue(line, text, value) ==
    [kind |-> "NumericValue", line |-> line, text |-> text, value |-> value]

\* ifs: a sequence of clauses [line, condition, block]
IfStatement(ifs, else_block) ==
    [kind |-> "IfStatement", ifs |-> ifs, else_block |-> else_block]

Clause(line, condition, block) ==
    [line |-> line, condition |-> condition, block |-> block]

ForLoop(line, loop_variable, bound0, bound1, reverse, block) ==
    [kind |-> "ForLoop", line |-> line, loop_variable |-> loop_variable,
     bound0 |-> bound0, bound1 |-> bound1, reverse |-> reverse, block |-> block]

WhileLoop(line, condition, block) ==
    [kind |-> "WhileLoop", line |-> line, condition |-> condition, block |-> block]

\* line is the line of symbols[0]
Expression(expression_type, line, children) ==
    [kind |-> "Expression", expression_type |-> expression_type,
     line |-> line, children |-> children]

----------------------------------------------------------------------------
(* tokenizer/location.rs: LocationTrack.  raw is the text as a sequence of  *)
(* characters, each a string of length 1; index is the 0-based index of the *)
(* next character, the one `characters` and `cached_next` hold between them.*)
(* In the tokenizer and in the parser a value that is used more than once   *)
(* is bound in place: (CHOOSE it \in {e : x \in {v}} : TRUE) is e with x for *)
(* v, as Let(v, LAMBDA x : e) is; the functions of the parser call one      *)
(* another as deep as the blocks and the expressions of the text are        *)
(* nested, and the form in place keeps the evaluation of a text shallow.    *)

LocationTrack_new(data) ==
    [raw |-> data, index |-> 0, last_reported_index |-> 0, line |-> 0, column |-> 0]

\* LocationTracker::peek: the next character, None at the end of the text
track_peek(track) ==
    IF track.index < Len(track.raw) THEN Some(track.raw[track.index + 1]) ELSE None

\* LocationTracker::consume of the peeked character, and the take of it
track_consume(track) ==
    [track EXCEPT !.index = @ + 1,
                  !.last_reported_index = track.index,
                  !.line = IF track.raw[track.index + 1] = "\n" THEN @ + 1 ELSE @,
                  !.column = IF track.raw[track.index + 1] = "\n" THEN 0 ELSE @ + 1]

\* LocationTracker::consume_while; the predicate is the set of its characters.
\* The loop consumes the characters up to stop, the index of the first
\* character outside the predicate or the end of the text.
track_consume_while(track, predicate) ==
    (CHOOSE it \in {
        LET stops == {i \in t.index..Len(t.raw) :
                         i = Len(t.raw) \/ t.raw[i + 1] \notin predicate}
            stop == CHOOSE i \in stops : \A j \in stops : i <= j
            newlines == {i \in t.index..(stop - 1) : t.raw[i + 1] = "\n"}
            last_newline == CHOOSE i \in newlines : \A j \in newlines : j <= i
        IN  IF stop = t.index THEN t
            ELSE [t EXCEPT !.index = stop,
                           !.last_reported_index = stop - 1,
                           !.line = @ + Cardinality(newlines),
                           !.column = IF newlines = {} THEN @ + (stop - t.index)
                                      ELSE stop - 1 - last_newline]
     : t \in {track}} : TRUE)

\* LocationTracker::consume_if; the bool it returns is whether index moved
track_consume_if(track, predicate) ==
    IF IsSome(track_peek(track)) /\ Unwrap(track_peek(track)) \in predicate
    THEN track_consume(track)
    ELSE track

\* LocationTracker::to_last_reported: raw[index..=last_reported_index]
to_last_reported(track, index) ==
    SubSeq(track.raw, index + 1, track.last_reported_index + 1)

----------------------------------------------------------------------------
(* tokenizer/token.rs and tokenizer/token_stream.rs.  A token is its        *)
(* TokenData variant, its text as the characters of the slice, the line of  *)
(* its Location, and start, the index in the text where the slice starts.   *)

Token(kind, chars, line, start) ==
    [kind |-> kind, chars |-> chars, line |-> line, start |-> start]

\* a slice of the text as a string: the halves of the slice, concatenated
RECURSIVE Concat(_)
Concat(chars) ==
    IF Len(chars) = 0 THEN ""
    ELSE IF Len(chars) = 1 THEN chars[1]
    ELSE Concat(SubSeq(chars, 1, Len(chars) \div 2))
         \o Concat(SubSeq(chars, (Len(chars) \div 2) + 1, Len(chars)))

\* Token::extract_text
extract_text(token) == IF token.kind = "EndOfFile" THEN " " ELSE Concat(token.chars)

Digits == {"0", "1", "2", "3", "4", "5", "6", "7", "8", "9"}

\* 'a'..='z' | 'A'..='Z' | '_'
Letters ==
    {"a", "b", "c", "d", "e", "f", "g", "h", "i", "j", "k", "l", "m",
     "n", "o", "p", "q", "r", "s", "t", "u", "v", "w", "x", "y", "z",
     "A", "B", "C", "D", "E", "F", "G", "H", "I", "J", "K", "L", "M",
     "N", "O", "P", "Q", "R", "S", "T", "U", "V", "W", "X", "Y", "Z", "_"}

\* the characters TokenStream::peek has an arm for
Alphabet ==
    Letters \cup Digits
    \cup {"/", "!", "<", ">", "=", "(", ")", "[", "]", ".", ",", "+", "-", "*",
          " ", "\r", "\n"}

\* TokenStream::new; panicked is set by the todo!() of a character outside
\* the alphabet
TokenStream_new(location_stream) ==
    [location_stream |-> location_stream, cached_next_token |-> None,
     sent_eof |-> FALSE, panicked |-> FALSE]

consume_while_identifier(track) ==
    track_consume_while(track_consume_if(track, Letters), Letters \cup Digits)

consume_while_number(track) ==
    track_consume_while(
        track_consume_if(track_consume_while(track, Digits), {"."}), Digits)

\* the arms of consume_compound_token are one: an optional '='
consume_compound_token(track) == track_consume_if(track, {"="})

\* the loop of the '\n' arm: the spaces and carriage returns of each line are
\* consumed, and while a '\n' follows them the line was blank and the next
\* one is looked at.  line is the line of `location`, start_index the index
\* after the last '\n'.
RECURSIVE skip_blank_lines(_, _, _)
skip_blank_lines(track, line, start_index) ==
    (CHOOSE it \in {
        IF track_peek(after) = Some("\n")
        THEN skip_blank_lines(track_consume(after),
                              IF track_peek(track) = Some(" ") THEN track.line ELSE line,
                              after.index + 1)
        ELSE [track |-> after,
              line |-> IF track_peek(track) = Some(" ") THEN track.line ELSE line,
              start_index |-> start_index]
     : after \in {track_consume_while(track_consume_if(track, {" "}), {" ", "\r"})}} : TRUE)

\* what TokenStream::peek computes when nothing is cached: the stream as the
\* computation leaves it and the token, None after the EndOfFile token.
\* self.next() inside peek finds the cache empty and is the same computation
\* on the stream as it stands.
RECURSIVE scan(_)
scan(stream) ==
    IF stream.panicked THEN [stream |-> stream, token |-> None]
    ELSE IF ~ IsSome(track_peek(stream.location_stream))
    THEN IF ~ stream.sent_eof
         THEN [stream |-> [stream EXCEPT !.sent_eof = TRUE],
               token |-> Some(Token("EndOfFile", << >>, stream.location_stream.line,
                                  stream.location_stream.index))]
         ELSE [stream |-> stream, token |-> None]
    ELSE LET c == Unwrap(track_peek(stream.location_stream))
             index == stream.location_stream.index
             line == stream.location_stream.line
             taken == track_consume(stream.location_stream)
             Made(kind, track) ==
                 [stream |-> [stream EXCEPT !.location_stream = track],
                  token |-> Some(Token(kind, to_last_reported(track, index), line, index))]
         IN  CASE c \in Letters -> Made("Identifier", consume_while_identifier(taken))
               [] c \in Digits -> Made("NumericLiteral", consume_while_number(taken))
               [] c = "/" ->
                    IF track_peek(taken) = Some("/")
                    THEN scan([stream EXCEPT !.location_stream =
                                   track_consume_while(track_consume(taken),
                                                       Alphabet \ {"\n"})])
                    ELSE Made("Symbol", taken)
               [] c \in {"!", "<", ">", "="} -> Made("Symbol", consume_compound_token(taken))
               [] c \in {"(", ")", "[", "]", ".", ",", "+", "-", "*"} -> Made("Symbol", taken)
               [] c \in {" ", "\r"} -> scan([stream EXCEPT !.location_stream = taken])
               [] c = "\n" ->
                    (CHOOSE it \in {
                        IF Len(to_last_reported(skipped.track, skipped.start_index)) = 0
                        THEN scan([stream EXCEPT !.location_stream = skipped.track])
                        ELSE [stream |-> [stream EXCEPT !.location_stream = skipped.track],
                              token |-> Some(Token("Indentation",
                                                   to_last_reported(skipped.track,
                                                                    skipped.start_index),
                                                   skipped.line, skipped.start_index))]
                     : skipped \in {skip_blank_lines(taken, line, index + 1)}} : TRUE)
               [] OTHER -> [stream |-> [stream EXCEPT !.panicked = TRUE], token |-> None]

\* TokenStream::peek: the cache is filled when it is empty
TokenStream_peek(stream) ==
    IF IsSome(stream.cached_next_token) THEN stream
    ELSE (CHOOSE it \in {
             [found.stream EXCEPT !.cached_next_token = found.token]
          : found \in {scan(stream)}} : TRUE)

\* TokenStream::next that takes the cache and hands out no EndOfFile token
TokenStream_next_silent(stream) ==
    (CHOOSE it \in {
        [stream |-> [peeked EXCEPT !.cached_next_token = None],
         token |-> IF IsSome(peeked.cached_next_token)
                      /\ Unwrap(peeked.cached_next_token).kind = "EndOfFile"
                   THEN None ELSE peeked.cached_next_token]
     : peeked \in {TokenStream_peek(stream)}} : TRUE)

\* TokenStream::next: peek, then take the cache
TokenStream_next(stream) ==
    (CHOOSE it \in {
        [stream |-> [peeked EXCEPT !.cached_next_token = None],
         token |-> peeked.cached_next_token]
     : peeked \in {TokenStream_peek(stream)}} : TRUE)
----------------------------------------------------------------------------
(* parser/context.rs: ParserContext.  A parsing function takes the context  *)
(* and returns Parsed(ctx, v): the context as it leaves it and v, its       *)
(* Option<...> result.  An error is kept as its message and the line of its *)
(* token.  blocks is not in the source: it logs, for every block that       *)
(* parse_block has returned, the level and the stack before and after it.   *)

Parsed(ctx, v) == [ctx |-> ctx, v |-> v]

ParserContext_new(token_stream) ==
    [errors |-> << >>, failed |-> FALSE, token_stream |-> token_stream,
     current_indent |-> 0, indentation_stack |-> << >>, blocks |-> << >>]

\* GenericError::error(token, message): a diagnostic is kept as its type, the
\* line of its token and its message
GenericError_error(token, message) ==
    [error_type |-> "Error", line |-> token.line, message |-> message]

\* add_error that never marks the parse as failed
add_error_unmarked(ctx, error) == [ctx EXCEPT !.errors = Append(@, error)]

add_error(ctx, error) ==
    [ctx EXCEPT !.failed = IF error.error_type = "Error" THEN TRUE ELSE @,
                !.errors = Append(@, error)]

\* self.token_stream.next()
next_token(ctx) ==
    (CHOOSE it \in {
        Parsed([ctx EXCEPT !.token_stream = taken.stream], taken.token)
     : taken \in {TokenStream_next(ctx.token_stream)}} : TRUE)

\* self.token_stream.peek()
peek_token(ctx) ==
    (CHOOSE it \in {
        Parsed([ctx EXCEPT !.token_stream = peeked], peeked.cached_next_token)
     : peeked \in {TokenStream_peek(ctx.token_stream)}} : TRUE)

expect_token(ctx) ==
    (CHOOSE it \in {
        IF IsSome(next.v) /\ Unwrap(next.v).kind = "EndOfFile"
        THEN Parsed(add_error(next.ctx, GenericError_error(Unwrap(next.v),
                              "unexpected end of file while parsing")), None)
        ELSE next
     : next \in {next_token(ctx)}} : TRUE)

consume_if(ctx, predicate(_)) ==
    (CHOOSE it \in {
        IF IsSome(peeked.v) /\ predicate(Unwrap(peeked.v))
        THEN next_token(peeked.ctx)
        ELSE Parsed(peeked.ctx, None)
     : peeked \in {peek_token(ctx)}} : TRUE)

\* attempt.or_else(|| { let token = peek()?.clone(); add_error(...); None })
or_else_error(attempt, message(_)) ==
    IF IsSome(attempt.v) THEN attempt
    ELSE (CHOOSE it \in {
             IF ~ IsSome(peeked.v) THEN peeked
             ELSE Parsed(add_error(peeked.ctx, GenericError_error(Unwrap(peeked.v),
                                   message(extract_text(Unwrap(peeked.v))))), None)
          : peeked \in {peek_token(attempt.ctx)}} : TRUE)

optional_consume_number(ctx) == consume_if(ctx, LAMBDA t : t.kind = "NumericLiteral")

optional_consume_identifier(ctx) == consume_if(ctx, LAMBDA t : t.kind = "Identifier")

enforce_consume_identifier(ctx) ==
    or_else_error(optional_consume_identifier(ctx),
                  LAMBDA text : "expected identifier, got '" \o text \o "'")

optional_consume_identifier_value(ctx, identifier) ==
    consume_if(ctx, LAMBDA t : t.kind = "Identifier" /\ extract_text(t) = identifier)

\* the attempt is optional_consume_identifier: any identifier is taken
enforce_consume_identifier_value(ctx, identifier) ==
    or_else_error(optional_consume_identifier(ctx),
                  LAMBDA text : "expected keyword '" \o identifier \o "', got '" \o text \o "'")

optional_consume_symbol(ctx, symbol) ==
    consume_if(ctx, LAMBDA t : t.kind = "Symbol" /\ extract_text(t) = symbol)

enforce_consume_symbol(ctx, symbol) ==
    or_else_error(optional_consume_symbol(ctx, symbol),
                  LAMBDA text : "expected symbol '" \o symbol \o "', got '" \o text \o "'")

optional_consume_consistent_indentation(ctx) ==
    consume_if(ctx, LAMBDA t : t.kind = "Indentation" /\ Len(t.chars) = ctx.current_indent)

\* an Indentation longer than the current level is consumed, the current
\* level is pushed and the new one adopted; anything else is an error
enforce_consume_more_indentation(ctx) ==
    (CHOOSE it \in {
        IF IsSome(more.v)
        THEN Parsed([more.ctx EXCEPT
                        !.indentation_stack = Append(@, more.ctx.current_indent),
                        !.current_indent = Len(Unwrap(more.v).chars)],
                    more.v)
        ELSE (CHOOSE it \in {
                 IF ~ IsSome(token.v) THEN token
                 ELSE Parsed(add_error(token.ctx, GenericError_error(Unwrap(token.v), "expected indented block")),
                             None)
              : token \in {expect_token(more.ctx)}} : TRUE)
     : more \in {consume_if(ctx, LAMBDA t : t.kind = "Indentation" /\ Len(t.chars) > ctx.current_indent)}} : TRUE)

\* enforce_indent_or_less with the fault of taking a longer Indentation as the
\* one of the current level
enforce_indent_or_less_longer(ctx) ==
    consume_if(ctx, LAMBDA t : t.kind = "Indentation" /\ Len(t.chars) >= ctx.current_indent)

\* enforce_indent_or_less with the fault of taking an Indentation of any length
\* as the one of the current level
enforce_indent_or_less_any(ctx) ==
    consume_if(ctx, LAMBDA t : t.kind = "Indentation")

\* an Indentation of the current level is consumed and returned; a longer one
\* is consumed and is an error; in every other case nothing is consumed
enforce_indent_or_less(ctx) ==
    (CHOOSE it \in {
        IF IsSome(same.v) THEN same
        ELSE (CHOOSE it \in {
                 IF IsSome(more.v)
                 THEN Parsed(add_error(more.ctx, GenericError_error(Unwrap(more.v), "unexpected indentation level")),
                             None)
                 ELSE more
              : more \in {consume_if(same.ctx, LAMBDA t : t.kind = "Indentation" /\ Len(t.chars) > same.ctx.current_indent)}} : TRUE)
     : same \in {optional_consume_consistent_indentation(ctx)}} : TRUE)

\* the end of a block that leaves the level and the stack as they are
end_block_keeping(ctx) == ctx

\* self.current_indent = self.indentation_stack.pop().unwrap_or(0)
end_block(ctx) ==
    [ctx EXCEPT !.current_indent = IF Len(ctx.indentation_stack) = 0 THEN 0
                                   ELSE ctx.indentation_stack[Len(ctx.indentation_stack)],
                !.indentation_stack = SubSeq(@, 1, Len(@) - 1)]

----------------------------------------------------------------------------
(* parser/expression.rs and the statements, blocks, functions and document  *)
(* of parser/context.rs.  A `?` of the source is the return of the failed   *)
(* result as it stands.                                                     *)

DigitValue(c) == CHOOSE n \in 0..9 : ToString(n) = c

RECURSIVE Decimal(_)
Decimal(digits) ==
    IF Len(digits) = 0 THEN 0
    ELSE 10 * Decimal(SubSeq(digits, 1, Len(digits) - 1)) + DigitValue(digits[Len(digits)])

RECURSIVE Power(_, _)
Power(b, n) == IF n = 0 THEN 1 ELSE b * Power(b, n - 1)

\* str::parse::<f64> of digits, an optional '.', digits: the value in halves,
\* exact for the literals of the grid
parse_f64(chars) ==
    LET dots == {i \in 1..Len(chars) : chars[i] = "."}
        dot == IF dots = {} THEN Len(chars) + 1 ELSE CHOOSE i \in dots : TRUE
        fraction == SubSeq(chars, dot + 1, Len(chars))
    IN  Number(2 * Decimal(SubSeq(chars, 1, dot - 1))
               + (2 * Decimal(fraction)) \div Power(10, Len(fraction)))

\* the binary operators by level, from parse_multiplicative_expressions (1)
\* to parse_assignment_expressions (7): the kind of the operator's token and
\* the ExpressionType of each text
BinaryOperators ==
    << [kind |-> "Symbol", types |-> ("*" :> "Multiply" @@ "/" :> "Divide")],
       [kind |-> "Symbol", types |-> ("+" :> "Add" @@ "-" :> "Subtract")],
       [kind |-> "Symbol", types |-> ("<" :> "LessThan" @@ ">" :> "GreaterThan"
                                      @@ "<=" :> "LessThanEqual"
                                      @@ ">=" :> "GreaterThanEqual")],
       [kind |-> "Symbol", types |-> ("==" :> "Equality" @@ "!=" :> "Inequality")],
       [kind |-> "Identifier", types |-> ("and" :> "LogicalAnd")],
       [kind |-> "Identifier", types |-> ("or" :> "LogicalOr")],
       [kind |-> "Symbol", types |-> ("=" :> "Assignment")] >>

\* the level of the binary operator a token is, 0 when it is none
OperatorLevel(token) ==
    LET levels == {l \in 1..Len(BinaryOperators) :
                       /\ token.kind = BinaryOperators[l].kind
                       /\ extract_text(token) \in DOMAIN BinaryOperators[l].types}
    IN  IF levels = {} THEN 0 ELSE CHOOSE l \in levels : TRUE

\* the peek of consume_if in a binary level, with the level of the token
peek_operator(ctx) ==
    (CHOOSE it \in {
        [ctx |-> peeked.ctx, v |-> peeked.v,
         level |-> IF IsSome(peeked.v) THEN OperatorLevel(Unwrap(peeked.v)) ELSE 0]
     : peeked \in {peek_token(ctx)}} : TRUE)

RECURSIVE parse_binary(_, _)
RECURSIVE climb(_, _, _, _)
RECURSIVE parse_value(_)
RECURSIVE postfix_loop(_, _)
RECURSIVE call_arguments(_, _)
RECURSIVE parse_statement(_)
RECURSIVE parse_block(_)
RECURSIVE block_loop(_, _)
RECURSIVE if_chain(_, _, _)

\* parse_expression is parse_assignment_expressions
parse_expression(ctx) == parse_binary(ctx, Len(BinaryOperators))

parse_value(ctx) ==
    (CHOOSE it \in {
    IF IsSome(identifier_token.v)
    THEN Parsed(identifier_token.ctx,
                Some(IdentifierValue(Unwrap(identifier_token.v).line,
                                     extract_text(Unwrap(identifier_token.v)))))
    ELSE (CHOOSE it \in {
    IF IsSome(numeric_token.v)
    THEN Parsed(numeric_token.ctx,
                Some(NumericValue(Unwrap(numeric_token.v).line,
                                  extract_text(Unwrap(numeric_token.v)),
                                  parse_f64(Unwrap(numeric_token.v).chars))))
    ELSE (CHOOSE it \in {
    IF IsSome(open.v)
    THEN (CHOOSE it \in {
             Parsed(enforce_consume_symbol(value.ctx, ")").ctx, value.v)
          : value \in {parse_expression(open.ctx)}} : TRUE)
    ELSE (CHOOSE it \in {
         IF IsSome(token.v)
         THEN Parsed(add_error(token.ctx, GenericError_error(Unwrap(token.v),
                               "expected value, got '" \o extract_text(Unwrap(token.v)) \o "'")),
                     None)
         ELSE token
          : token \in {expect_token(open.ctx)}} : TRUE)
          : open \in {optional_consume_symbol(numeric_token.ctx, "(")}} : TRUE)
          : numeric_token \in {optional_consume_number(identifier_token.ctx)}} : TRUE)
     : identifier_token \in {optional_consume_identifier(ctx)}} : TRUE)

\* the loop of a call's arguments: an expression, then "," for one more
call_arguments(ctx, children) ==
    (CHOOSE it \in {
        IF ~ IsSome(argument.v) THEN argument
        ELSE (CHOOSE it \in {
                 IF IsSome(comma.v)
                 THEN call_arguments(comma.ctx, Append(children, Unwrap(argument.v)))
                 ELSE Parsed(comma.ctx, Some(Append(children, Unwrap(argument.v))))
              : comma \in {optional_consume_symbol(argument.ctx, ",")}} : TRUE)
     : argument \in {parse_expression(ctx)}} : TRUE)

\* one turn of the loop of parse_postfix_expression: ".", "[" or "(" after a
\* value; done when none of them follows
postfix_step(ctx, inner) ==
    (CHOOSE it \in {
    IF IsSome(dot.v)
    THEN (CHOOSE it \in {
             [ctx |-> member.ctx, done |-> ~ IsSome(member.v),
              v |-> IF ~ IsSome(member.v) THEN None
                    ELSE Some(Expression("MemberAccess", Unwrap(dot.v).line,
                                         << inner, Unwrap(member.v) >>))]
          : member \in {parse_value(dot.ctx)}} : TRUE)
    ELSE (CHOOSE it \in {
    IF IsSome(bracket.v)
    THEN (CHOOSE it \in {
             IF ~ IsSome(index.v) THEN [ctx |-> index.ctx, done |-> TRUE, v |-> None]
             ELSE (CHOOSE it \in {
                      [ctx |-> close.ctx, done |-> ~ IsSome(close.v),
                       v |-> IF ~ IsSome(close.v) THEN None
                             ELSE Some(Expression("Indexing", Unwrap(bracket.v).line,
                                                  << inner, Unwrap(index.v) >>))]
                   : close \in {enforce_consume_symbol(index.ctx, "]")}} : TRUE)
          : index \in {parse_expression(bracket.ctx)}} : TRUE)
    ELSE (CHOOSE it \in {
    IF IsSome(open.v)
    THEN (CHOOSE it \in {
             IF ~ IsSome(children.v) THEN [ctx |-> children.ctx, done |-> TRUE, v |-> None]
             ELSE (CHOOSE it \in {
                      [ctx |-> close.ctx, done |-> ~ IsSome(close.v),
                       v |-> IF ~ IsSome(close.v) THEN None
                             ELSE Some(Expression("FunctionCall", Unwrap(open.v).line,
                                                  Unwrap(children.v)))]
                   : close \in {enforce_consume_symbol(children.ctx, ")")}} : TRUE)
          : children \in {call_arguments(open.ctx, << inner >>)}} : TRUE)
    ELSE [ctx |-> open.ctx, done |-> TRUE, v |-> Some(inner)]
          : open \in {optional_consume_symbol(bracket.ctx, "(")}} : TRUE)
          : bracket \in {optional_consume_symbol(dot.ctx, "[")}} : TRUE)
     : dot \in {optional_consume_symbol(ctx, ".")}} : TRUE)

postfix_loop(ctx, inner) ==
    (CHOOSE it \in {
        IF step.done THEN Parsed(step.ctx, step.v)
        ELSE postfix_loop(step.ctx, Unwrap(step.v))
     : step \in {postfix_step(ctx, inner)}} : TRUE)

parse_postfix_expression(ctx) ==
    (CHOOSE it \in {
        IF ~ IsSome(inner.v) THEN inner ELSE postfix_loop(inner.ctx, Unwrap(inner.v))
     : inner \in {parse_value(ctx)}} : TRUE)

\* climb with the fault of grouping the operators of one level to the left:
\* the right operand is parsed at the level below, and the level goes on with
\* the expression made
RECURSIVE climb_left(_, _, _, _)
climb_left(ctx, left, from, top) ==
    (CHOOSE it \in {
        IF symbol.level < from \/ symbol.level > top THEN Parsed(symbol.ctx, Some(left))
        ELSE (CHOOSE it \in {
             IF ~ IsSome(right.v) THEN right
             ELSE climb_left(right.ctx,
                             Expression(BinaryOperators[symbol.level].types[
                                            extract_text(Unwrap(symbol.v))],
                                        Unwrap(symbol.v).line,
                                        << left, Unwrap(right.v) >>),
                             symbol.level, top)
              : right \in {parse_binary(next_token(symbol.ctx).ctx, symbol.level - 1)}} : TRUE)
     : symbol \in {peek_operator(ctx)}} : TRUE)

\* parse_multiplicative_expressions (1) ... parse_assignment_expressions (7)
\* from level `from` to level `top`, given the left operand of level from - 1.
\* The token that follows is an operator of at most one level: the levels
\* below it return the left operand as it stands, its own level consumes it
\* and parses the right operand at this same level (the operators associate
\* to the right), and the levels above go on with the expression made.
climb(ctx, left, from, top) ==
    (CHOOSE it \in {
        IF symbol.level < from \/ symbol.level > top THEN Parsed(symbol.ctx, Some(left))
        ELSE (CHOOSE it \in {
             IF ~ IsSome(right.v) THEN right
             ELSE climb(right.ctx,
                        Expression(BinaryOperators[symbol.level].types[
                                       extract_text(Unwrap(symbol.v))],
                                   Unwrap(symbol.v).line,
                                   << left, Unwrap(right.v) >>),
                        symbol.level + 1, top)
              : right \in {parse_binary(next_token(symbol.ctx).ctx, symbol.level)}} : TRUE)
     : symbol \in {peek_operator(ctx)}} : TRUE)

\* the binary level `top`: the operand of the lowest level is a postfix
\* expression
parse_binary(ctx, top) ==
    (CHOOSE it \in {
        IF ~ IsSome(left.v) THEN left ELSE climb(left.ctx, Unwrap(left.v), 1, top)
     : left \in {parse_postfix_expression(ctx)}} : TRUE)

\* the `for` arm of parse_statement after the token `for`, up to its block
parse_for(ctx, token) ==
    (CHOOSE it \in {
    IF ~ IsSome(loop_variable.v) THEN loop_variable
    ELSE (CHOOSE it \in {
    IF ~ IsSome(bound0.v) THEN bound0
    ELSE (CHOOSE it \in {
         (CHOOSE it \in {
    IF ~ IsSome(to.v) THEN to
    ELSE (CHOOSE it \in {
    IF ~ IsSome(bound1.v) THEN bound1
    ELSE Parsed(bound1.ctx,
                Some(ForLoop(token.line, extract_text(Unwrap(loop_variable.v)),
                             Unwrap(bound0.v), Unwrap(bound1.v), IsSome(down.v),
                             << >>)))
          : bound1 \in {parse_expression(to.ctx)}} : TRUE)
     : to \in {enforce_consume_identifier_value(down.ctx, "to")}} : TRUE)
          : down \in {optional_consume_identifier_value(bound0.ctx, "down")}} : TRUE)
          : bound0 \in {parse_expression(enforce_consume_symbol(loop_variable.ctx, "=").ctx)}} : TRUE)
     : loop_variable \in {enforce_consume_identifier(ctx)}} : TRUE)

\* parse_statement up to the block of a loop: the statement made, its block
\* still empty, and whether a block follows
statement_header(ctx) ==
    (CHOOSE it \in {
    IF ~ IsSome(peeked.v) THEN [ctx |-> peeked.ctx, v |-> None, block |-> FALSE]
    ELSE IF extract_text(Unwrap(peeked.v)) \in {"return", "while", "for"}
    THEN (CHOOSE it \in {
         IF ~ IsSome(token.v) THEN [ctx |-> token.ctx, v |-> None, block |-> FALSE]
         ELSE IF extract_text(Unwrap(token.v)) = "for"
              THEN (CHOOSE it \in {
                       [ctx |-> for.ctx, v |-> for.v, block |-> TRUE]
                    : for \in {parse_for(token.ctx, Unwrap(token.v))}} : TRUE)
         ELSE (CHOOSE it \in {
              [ctx |-> expression.ctx,
               v |-> IF ~ IsSome(expression.v) THEN None
                     ELSE IF extract_text(Unwrap(token.v)) = "return"
                     THEN Some(ReturnStatement(Unwrap(token.v).line, Unwrap(expression.v)))
                     ELSE Some(WhileLoop(Unwrap(token.v).line, Unwrap(expression.v), << >>)),
               block |-> extract_text(Unwrap(token.v)) = "while"]
               : expression \in {parse_expression(token.ctx)}} : TRUE)
          : token \in {expect_token(peeked.ctx)}} : TRUE)
    ELSE (CHOOSE it \in {
             [ctx |-> expression.ctx, v |-> expression.v, block |-> FALSE]
          : expression \in {parse_expression(peeked.ctx)}} : TRUE)
     : peeked \in {peek_token(ctx)}} : TRUE)

parse_statement(ctx) ==
    (CHOOSE it \in {
    IF ~ IsSome(header.v) \/ ~ header.block THEN Parsed(header.ctx, header.v)
    ELSE (CHOOSE it \in {
         IF ~ IsSome(block.v) THEN block
         ELSE Parsed(block.ctx, Some([Unwrap(header.v) EXCEPT !.block = Unwrap(block.v)]))
          : block \in {parse_block(header.ctx)}} : TRUE)
     : header \in {statement_header(ctx)}} : TRUE)

\* a clause of an if chain: the token `if` (expected) or `elseif` (taken),
\* the condition and the block
if_clause(ctx, expected) ==
    (CHOOSE it \in {
    IF ~ IsSome(token.v) THEN token
    ELSE (CHOOSE it \in {
    IF ~ IsSome(condition.v) THEN condition
    ELSE (CHOOSE it \in {
    IF ~ IsSome(block.v) THEN block
    ELSE Parsed(block.ctx, Some(Clause(Unwrap(token.v).line, Unwrap(condition.v),
                                       Unwrap(block.v))))
          : block \in {parse_block(condition.ctx)}} : TRUE)
          : condition \in {parse_expression(token.ctx)}} : TRUE)
     : token \in {IF expected THEN expect_token(ctx) ELSE next_token(ctx)}} : TRUE)

\* the inner loop of parse_block after a clause: elseif, else, or the end of
\* the chain.  A result with done = TRUE is the end of the block.
if_chain(ctx, statements, else_ifs) ==
    (CHOOSE it \in {
    IF ~ IsSome(indent.v)
    THEN [ctx |-> end_block(indent.ctx), done |-> TRUE,
          v |-> Some(Append(statements, IfStatement(else_ifs, None)))]
    ELSE (CHOOSE it \in {
    IF ~ IsSome(t.v) THEN [ctx |-> t.ctx, done |-> TRUE, v |-> None]
    ELSE IF extract_text(Unwrap(t.v)) = "elseif"
    THEN (CHOOSE it \in {
         IF ~ IsSome(clause.v) THEN [ctx |-> clause.ctx, done |-> TRUE, v |-> None]
         ELSE if_chain(clause.ctx, statements, Append(else_ifs, Unwrap(clause.v)))
          : clause \in {if_clause(t.ctx, FALSE)}} : TRUE)
    ELSE IF extract_text(Unwrap(t.v)) = "else"
    THEN (CHOOSE it \in {
         IF ~ IsSome(block.v) THEN [ctx |-> block.ctx, done |-> TRUE, v |-> None]
         ELSE (CHOOSE it \in {
              [ctx |-> IF IsSome(after.v) THEN after.ctx ELSE end_block(after.ctx),
               done |-> ~ IsSome(after.v),
               v |-> Some(Append(statements, IfStatement(else_ifs, block.v)))]
               : after \in {enforce_indent_or_less(block.ctx)}} : TRUE)
          : block \in {parse_block(next_token(t.ctx).ctx)}} : TRUE)
    ELSE [ctx |-> t.ctx, done |-> FALSE,
          v |-> Some(Append(statements, IfStatement(else_ifs, None)))]
          : t \in {peek_token(indent.ctx)}} : TRUE)
     : indent \in {enforce_indent_or_less(ctx)}} : TRUE)

\* one turn of the 'outer loop of parse_block: an if chain or a statement,
\* then the Indentation of the next statement or the end of the block (done)
block_step(ctx, statements) ==
    (CHOOSE it \in {
    IF IsSome(s.v) /\ extract_text(Unwrap(s.v)) = "if"
    THEN (CHOOSE it \in {
         IF ~ IsSome(clause.v) THEN [ctx |-> clause.ctx, done |-> TRUE, v |-> None]
         ELSE if_chain(clause.ctx, statements, << Unwrap(clause.v) >>)
          : clause \in {if_clause(s.ctx, TRUE)}} : TRUE)
    ELSE (CHOOSE it \in {
         IF ~ IsSome(statement.v) THEN [ctx |-> statement.ctx, done |-> TRUE, v |-> None]
         ELSE (CHOOSE it \in {
              [ctx |-> IF IsSome(indent.v) THEN indent.ctx ELSE end_block(indent.ctx),
               done |-> ~ IsSome(indent.v),
               v |-> Some(Append(statements, Unwrap(statement.v)))]
               : indent \in {enforce_indent_or_less(statement.ctx)}} : TRUE)
          : statement \in {parse_statement(s.ctx)}} : TRUE)
     : s \in {peek_token(ctx)}} : TRUE)

block_loop(ctx, statements) ==
    (CHOOSE it \in {
        IF ~ IsSome(step.v) THEN Parsed(step.ctx, None)
        ELSE IF step.done THEN Parsed(step.ctx, Some(Block(Unwrap(step.v))))
        ELSE block_loop(step.ctx, Unwrap(step.v))
     : step \in {block_step(ctx, statements)}} : TRUE)

\* the level and the stack of previous levels
Levels(ctx) == [current_indent |-> ctx.current_indent,
                indentation_stack |-> ctx.indentation_stack]

\* a block that has returned is logged with the levels before it, the length
\* of the Indentation it started on, the levels after it and the token that
\* follows it
parse_block(ctx) ==
    (CHOOSE it \in {
    IF ~ IsSome(more.v) THEN more
    ELSE (CHOOSE it \in {
         IF ~ IsSome(block.v) THEN block
         ELSE Parsed([block.ctx EXCEPT !.blocks =
                         Append(@, [before |-> Levels(ctx),
                                    indentation |-> Len(Unwrap(more.v).chars),
                                    after |-> Levels(block.ctx),
                                    next |-> block.ctx.token_stream.cached_next_token])],
                     block.v)
          : block \in {block_loop(more.ctx, << >>)}} : TRUE)
     : more \in {enforce_consume_more_indentation(ctx)}} : TRUE)

\* the loop of the arguments of parse_function
RECURSIVE function_arguments(_, _)
function_arguments(ctx, arguments) ==
    (CHOOSE it \in {
    IF ~ IsSome(argument.v) THEN argument
    ELSE (CHOOSE it \in {
         IF IsSome(comma.v)
         THEN function_arguments(comma.ctx,
                                 Append(arguments, extract_text(Unwrap(argument.v))))
         ELSE Parsed(enforce_consume_symbol(comma.ctx, ")").ctx,
                     Some(Append(arguments, extract_text(Unwrap(argument.v)))))
          : comma \in {optional_consume_symbol(argument.ctx, ",")}} : TRUE)
     : argument \in {enforce_consume_identifier(ctx)}} : TRUE)

\* parse_function up to its block: the name and the arguments
function_header(ctx) ==
    (CHOOSE it \in {
    IF ~ IsSome(name.v) THEN name
    ELSE (CHOOSE it \in {
         (CHOOSE it \in {
         IF ~ IsSome(arguments.v) THEN arguments
         ELSE Parsed(arguments.ctx,
                     Some(Function(Unwrap(name.v).line, extract_text(Unwrap(name.v)),
                                   Unwrap(arguments.v), << >>)))
                                      : arguments \in {IF IsSome(close.v) THEN Parsed(close.ctx, Some(<< >>)) ELSE function_arguments(close.ctx, << >>)}} : TRUE)
          : close \in {optional_consume_symbol(enforce_consume_symbol(name.ctx, "(").ctx, ")")}} : TRUE)
     : name \in {enforce_consume_identifier(ctx)}} : TRUE)

parse_function(ctx) ==
    (CHOOSE it \in {
    IF ~ IsSome(header.v) THEN header
    ELSE (CHOOSE it \in {
         IF ~ IsSome(block.v) THEN block
         ELSE Parsed(block.ctx, Some([Unwrap(header.v) EXCEPT !.block = Unwrap(block.v)]))
          : block \in {parse_block(header.ctx)}} : TRUE)
     : header \in {function_header(ctx)}} : TRUE)

\* one turn of the loop of parse_document: nothing at EndOfFile or at the
\* end of the stream, else a function
document_step(ctx) ==
    (CHOOSE it \in {
        IF ~ IsSome(next.v) \/ Unwrap(next.v).kind = "EndOfFile" THEN Parsed(next.ctx, None)
        ELSE parse_function(next.ctx)
     : next \in {peek_token(ctx)}} : TRUE)

\* the loop of parse_document: functions until EndOfFile, the end of the
\* stream or a function that fails
RECURSIVE document_loop(_, _)
document_loop(ctx, result) ==
    (CHOOSE it \in {
        IF IsSome(step.v) THEN document_loop(step.ctx, Append(result, Unwrap(step.v)))
        ELSE Parsed(step.ctx, result)
     : step \in {document_step(ctx)}} : TRUE)

\* parse_document: Err(errors) when an error was added, else Ok((result,
\* errors)); "panic" when the tokenizer met a character it has no arm for
parse_document(ctx) ==
    (CHOOSE it \in {
        [st |-> IF document.ctx.token_stream.panicked THEN "panic"
                ELSE IF document.ctx.failed THEN "err" ELSE "ok",
         tree |-> IF document.ctx.failed THEN << >> ELSE document.v,
         errors |-> document.ctx.errors,
         blocks |-> document.ctx.blocks]
     : document \in {document_loop(ctx, << >>)}} : TRUE)
----------------------------------------------------------------------------
(* compiler/instructions.rs: VMVariable, VMValue, VMInstruction, VMFunction *)

\* VMVariable::Token(t)
TokenVariable(text) == [name |-> text, token |-> TRUE]

\* VMVariable::Custom(s)
CustomVariable(text) == [name |-> text, token |-> FALSE]

\* VMValue::Variable(v)
VarValue(variable) == [k |-> "Variable", var |-> variable]

\* VMValue::Value(v, Option<Token>); text is the text of the token
Immediate(value, token) == [k |-> "Value", v |-> value, token |-> token]

MemberAccess(m, a) == [k |-> "MemberAccess", base |-> m, member |-> a]

Indexing(m, i) == [k |-> "Indexing", base |-> m, index |-> i]

\* VMValue::get_token: the text of the token, or None
RECURSIVE get_token(_)
get_token(value) ==
    CASE value.k = "MemberAccess" -> get_token(value.base)
      [] value.k = "Indexing" -> get_token(value.base)
      [] value.k = "Value" -> value.token
      [] OTHER -> IF value.var.token THEN Some(value.var.name) ELSE None

Return(line, value) == [op |-> "Return", line |-> line, value |-> value]

Assign(line, dest, src) == [op |-> "Assign", line |-> line, dest |-> dest, src |-> src]

BinaryOperation(line, bop, dest, a, b) ==
    [op |-> "BinaryOperation", line |-> line, bop |-> bop, dest |-> dest, a |-> a, b |-> b]

FunctionCall(line, function, dest, arguments) ==
    [op |-> "FunctionCall", line |-> line, function |-> function, dest |-> dest,
     arguments |-> arguments]

Branch(line, cond, true_branch, false_branch) ==
    [op |-> "Branch", line |-> line, cond |-> cond,
     true_branch |-> true_branch, false_branch |-> false_branch]

Goto(line, branch) == [op |-> "Goto", line |-> line, branch |-> branch]

\* VMFunction::new
VMFunction_new(name, line, arguments) ==
    [name |-> name, line |-> line, arguments |-> arguments,
     instructions |-> << >>, next_name |-> 0]

add_instruction_type(fn, instruction) ==
    [fn EXCEPT !.instructions = Append(@, instruction)]

next_instruction_index(fn) == Len(fn.instructions)

\* the name the next temporary gets; the counter is advanced by bump_temp
temp_variable(fn) == CustomVariable("temp$" \o ToString(fn.next_name))

bump_temp(fn) == [fn EXCEPT !.next_name = @ + 1]

\* TryFrom<ExpressionType> for VMBinaryOperation
IsBinaryOperation(expression_type) ==
    expression_type \in {"Add", "Subtract", "Multiply", "Divide", "LessThan",
                         "GreaterThan", "LessThanEqual", "GreaterThanEqual",
                         "Equality", "Inequality"}

\* set_false_branch with the fault of a target past the end of the function
set_false_branch_beyond(fn, index, target) ==
    [fn EXCEPT !.instructions[index + 1].false_branch = target + Len(fn.instructions) + 1]

\* the fix-ups of a forward target
set_false_branch(fn, index, target) ==
    [fn EXCEPT !.instructions[index + 1].false_branch = target]

set_true_branch(fn, index, target) ==
    [fn EXCEPT !.instructions[index + 1].true_branch = target]

set_goto(fn, index, target) ==
    [fn EXCEPT !.instructions[index + 1].branch = target]

\* set_gotos with the fault of leaving the skip Gotos as they were pushed
set_gotos_unfixed(fn, indices, target) == fn

RECURSIVE set_gotos(_, _, _)
set_gotos(fn, indices, target) ==
    IF Len(indices) = 0 THEN fn
    ELSE set_gotos(set_goto(fn, Head(indices), target), Tail(indices), target)

----------------------------------------------------------------------------
(* compiler/parsetree.rs: lowering.  compile returns                        *)
(* Result<Option<VMValue>, GenericError> and changes the VMFunction: the    *)
(* model returns [st, fn, v] with st "ok", "err" (a lowering error) or      *)
(* "panic" (unwrap of None, todo!(), unimplemented!()).                     *)

Lowered(fn, v) == [st |-> "ok", fn |-> fn, v |-> v]

Failed(st, fn) == [st |-> st, fn |-> fn, v |-> None]

RECURSIVE compile(_, _)
RECURSIVE compile_children(_, _)
RECURSIVE compile_statements(_, _)
RECURSIVE compile_ifs(_, _, _)

\* children.iter().map(|c| self.compile(c)).collect::<Result<Vec<_>, _>>()
compile_children(fn, children) ==
    IF Len(children) = 0 THEN [st |-> "ok", fn |-> fn, values |-> << >>]
    ELSE Let(compile(fn, Head(children)), LAMBDA first :
         IF first.st # "ok" THEN [st |-> first.st, fn |-> first.fn, values |-> << >>]
         ELSE Let(compile_children(first.fn, Tail(children)), LAMBDA rest :
              [st |-> rest.st, fn |-> rest.fn, values |-> << first.v >> \o rest.values]))

\* Block: for statement in statements { self.compile(statement)?; }
compile_statements(fn, statements) ==
    IF Len(statements) = 0 THEN Lowered(fn, None)
    ELSE Let(compile(fn, Head(statements)), LAMBDA first :
         IF first.st # "ok" THEN Failed(first.st, first.fn)
         ELSE compile_statements(first.fn, Tail(statements)))

\* TryFrom<VMValue> for VMVariable
try_into_variable(value) ==
    CASE value.k = "Value" /\ IsSome(value.token) -> [st |-> "err", var |-> CustomVariable("")]
      [] value.k = "Variable" -> [st |-> "ok", var |-> value.var]
      [] OTHER -> [st |-> "panic", var |-> CustomVariable("")]

compile_return(fn, node) ==
    IF IsSome(node.expression)
    THEN Let(compile(fn, Unwrap(node.expression)), LAMBDA child :
         IF child.st # "ok" THEN Failed(child.st, child.fn)
         ELSE IF ~ IsSome(child.v) THEN Failed("panic", child.fn)
         ELSE Lowered(add_instruction_type(child.fn, Return(node.line, Unwrap(child.v))), None))
    ELSE Lowered(add_instruction_type(fn, Return(node.line, Immediate(NoneValue, None))), None)

compile_assignment(fn, node) ==
    Let(compile(fn, node.children[1]), LAMBDA child_a :
    IF child_a.st # "ok" THEN Failed(child_a.st, child_a.fn)
    ELSE Let(compile(child_a.fn, node.children[2]), LAMBDA child_b :
         IF child_b.st # "ok" THEN Failed(child_b.st, child_b.fn)
         ELSE IF ~ IsSome(child_a.v) \/ ~ IsSome(child_b.v) THEN Failed("panic", child_b.fn)
         ELSE Lowered(add_instruction_type(child_b.fn,
                          Assign(node.line, Unwrap(child_a.v), Unwrap(child_b.v))),
                      child_b.v)))

compile_call(fn, node) ==
    Let(compile_children(fn, node.children), LAMBDA values :
    IF values.st # "ok" THEN Failed(values.st, values.fn)
    ELSE IF \E i \in 1..Len(values.values) : ~ IsSome(values.values[i])
         THEN Failed("panic", values.fn)
    ELSE LET func_name == try_into_variable(Unwrap(values.values[1]))
             args == [i \in 1..(Len(values.values) - 1) |-> Unwrap(values.values[i + 1])]
             v == temp_variable(values.fn)
         IN  IF func_name.st # "ok" THEN Failed(func_name.st, values.fn)
             ELSE Lowered(add_instruction_type(bump_temp(values.fn),
                              FunctionCall(node.line, func_name.var, v, args)),
                          Some(VarValue(v))))

\* MemberAccess and Indexing: no instruction, the place is resolved at use
compile_place(fn, node) ==
    Let(compile(fn, node.children[1]), LAMBDA value :
    IF value.st # "ok" THEN Failed(value.st, value.fn)
    ELSE IF ~ IsSome(value.v) THEN Failed("panic", value.fn)
    ELSE Let(compile(value.fn, node.children[2]), LAMBDA key :
         IF key.st # "ok" THEN Failed(key.st, key.fn)
         ELSE IF ~ IsSome(key.v) THEN Failed("panic", key.fn)
         ELSE IF node.expression_type = "MemberAccess"
              THEN Lowered(key.fn, Some(MemberAccess(Unwrap(value.v), Unwrap(key.v))))
              ELSE Lowered(key.fn, Some(Indexing(Unwrap(value.v), Unwrap(key.v))))))

\* the instructions LogicalAnd and LogicalOr add after b's code: Assign(v, b),
\* Goto(after), and at the rejoin Assign(v, a); then the Goto and the Branch
\* at first_compare get their targets
logical_tail(fn, node, v, a, b, first_compare) ==
    LET goto_end == next_instruction_index(fn) + 1
        rejoin == goto_end + 1
        after == rejoin + 1
        added == [fn EXCEPT !.instructions = @ \o
                     << Assign(node.line, VarValue(v), b),
                        Goto(node.line, 0),
                        Assign(node.line, VarValue(v), a) >>]
    IN  IF node.expression_type = "LogicalAnd"
        THEN set_false_branch(set_goto(added, goto_end, after), first_compare, rejoin)
        ELSE set_true_branch(set_goto(added, goto_end, after), first_compare, rejoin)

\* compile_logical with the fault of giving `and` the Branch of `or` and `or`
\* the Branch of `and`
compile_logical_swapped(fn, node) ==
    Let(compile(bump_temp(fn), node.children[1]), LAMBDA a :
    IF a.st # "ok" THEN Failed(a.st, a.fn)
    ELSE IF ~ IsSome(a.v) THEN Failed("panic", a.fn)
    ELSE Let(compile(add_instruction_type(a.fn,
                         Branch(node.line, Unwrap(a.v), next_instruction_index(a.fn) + 1,
                                next_instruction_index(a.fn) + 1)),
                     node.children[2]), LAMBDA b :
         IF b.st # "ok" THEN Failed(b.st, b.fn)
         ELSE IF ~ IsSome(b.v) THEN Failed("panic", b.fn)
         ELSE Lowered(logical_tail(b.fn,
                                   [node EXCEPT !.expression_type =
                                       IF @ = "LogicalAnd" THEN "LogicalOr" ELSE "LogicalAnd"],
                                   temp_variable(fn), Unwrap(a.v), Unwrap(b.v),
                                   next_instruction_index(a.fn)),
                      Some(VarValue(temp_variable(fn))))))

\* LogicalAnd and LogicalOr: Branch on a, b's code, Assign(v, b), Goto(after),
\* rejoin: Assign(v, a).  For `and` the false target is the rejoin, for `or`
\* the true target is.
compile_logical(fn, node) ==
    Let(compile(bump_temp(fn), node.children[1]), LAMBDA a :
    IF a.st # "ok" THEN Failed(a.st, a.fn)
    ELSE IF ~ IsSome(a.v) THEN Failed("panic", a.fn)
    ELSE Let(compile(add_instruction_type(a.fn,
                         IF node.expression_type = "LogicalAnd"
                         THEN Branch(node.line, Unwrap(a.v), next_instruction_index(a.fn) + 1, 0)
                         ELSE Branch(node.line, Unwrap(a.v), 0, next_instruction_index(a.fn) + 1)),
                     node.children[2]), LAMBDA b :
         IF b.st # "ok" THEN Failed(b.st, b.fn)
         ELSE IF ~ IsSome(b.v) THEN Failed("panic", b.fn)
         ELSE Lowered(logical_tail(b.fn, node, temp_variable(fn), Unwrap(a.v), Unwrap(b.v),
                                   next_instruction_index(a.fn)),
                      Some(VarValue(temp_variable(fn))))))

\* the arithmetic, comparison and equality operators
compile_binary(fn, node) ==
    Let(compile_children(fn, node.children), LAMBDA values :
    IF values.st # "ok" THEN Failed(values.st, values.fn)
    ELSE IF ~ IsBinaryOperation(node.expression_type) THEN Failed("panic", values.fn)
    ELSE IF ~ IsSome(values.values[1]) \/ ~ IsSome(values.values[2])
         THEN Failed("panic", values.fn)
    ELSE Lowered(add_instruction_type(bump_temp(values.fn),
                     BinaryOperation(node.line, node.expression_type, temp_variable(values.fn),
                         Unwrap(values.values[1]), Unwrap(values.values[2]))),
                 Some(VarValue(temp_variable(values.fn)))))

\* the clauses of an if: Branch(cond, prev + 1, next), the block, Goto(last)
compile_ifs(fn, ifs, skip_to_end) ==
    IF Len(ifs) = 0 THEN [st |-> "ok", fn |-> fn, skip_to_end |-> skip_to_end]
    ELSE Let(compile(fn, Head(ifs).condition), LAMBDA cond :
         IF cond.st # "ok" THEN [st |-> cond.st, fn |-> cond.fn, skip_to_end |-> skip_to_end]
         ELSE IF ~ IsSome(cond.v)
              THEN [st |-> "panic", fn |-> cond.fn, skip_to_end |-> skip_to_end]
         ELSE Let(compile(add_instruction_type(cond.fn,
                              Branch(Head(ifs).line, Unwrap(cond.v),
                                     next_instruction_index(cond.fn) + 1, 0)),
                          Head(ifs).block), LAMBDA block :
              IF block.st # "ok"
              THEN [st |-> block.st, fn |-> block.fn, skip_to_end |-> skip_to_end]
              ELSE compile_ifs(set_false_branch(
                                   add_instruction_type(block.fn, Goto(Head(ifs).line, 0)),
                                   next_instruction_index(cond.fn),
                                   next_instruction_index(block.fn) + 1),
                               Tail(ifs),
                               Append(skip_to_end, next_instruction_index(block.fn)))))

compile_if(fn, node) ==
    Let(compile_ifs(fn, node.ifs, << >>), LAMBDA clauses :
    IF clauses.st # "ok" THEN Failed(clauses.st, clauses.fn)
    ELSE Let(IF IsSome(node.else_block)
             THEN compile(clauses.fn, Unwrap(node.else_block))
             ELSE Lowered(clauses.fn, None), LAMBDA else_block :
         IF else_block.st # "ok" THEN Failed(else_block.st, else_block.fn)
         ELSE Lowered(set_gotos(else_block.fn, clauses.skip_to_end,
                                next_instruction_index(else_block.fn)),
                      None)))

\* for_head with the fault of a strict comparison: the last value is left out
for_head_exclusive(fn, node, b0, b1) ==
    [fn EXCEPT !.instructions = @ \o
        << Assign(node.line, VarValue(TokenVariable(node.loop_variable)), b0),
           BinaryOperation(node.line, IF node.reverse THEN "GreaterThan" ELSE "LessThan",
               temp_variable(fn), VarValue(TokenVariable(node.loop_variable)), b1),
           Branch(node.line, VarValue(temp_variable(fn)), next_instruction_index(fn) + 3, 0) >>,
        !.next_name = @ + 1]

\* the head of a for loop: Assign(i, b0); start: t = i <= b1 (>= for a
\* reverse loop); Branch(t, next, 0)
for_head(fn, node, b0, b1) ==
    [fn EXCEPT !.instructions = @ \o
        << Assign(node.line, VarValue(TokenVariable(node.loop_variable)), b0),
           BinaryOperation(node.line,
               IF node.reverse THEN "GreaterThanEqual" ELSE "LessThanEqual",
               temp_variable(fn), VarValue(TokenVariable(node.loop_variable)), b1),
           Branch(node.line, VarValue(temp_variable(fn)), next_instruction_index(fn) + 3, 0) >>,
        !.next_name = @ + 1]

\* the tail of a for loop: i = i + 1 (- 1 for a reverse loop); Goto(start);
\* and the Branch at compare_line gets its false target
for_tail(fn, node, start, compare_line) ==
    set_false_branch(
        [fn EXCEPT !.instructions = @ \o
            << BinaryOperation(node.line, IF node.reverse THEN "Subtract" ELSE "Add",
                   TokenVariable(node.loop_variable),
                   VarValue(TokenVariable(node.loop_variable)), Immediate(Num(1), None)),
               Goto(node.line, start) >>],
        compare_line, next_instruction_index(fn) + 2)

compile_for(fn, node) ==
    Let(compile(fn, node.bound0), LAMBDA b0 :
    IF b0.st # "ok" THEN Failed(b0.st, b0.fn)
    ELSE IF ~ IsSome(b0.v) THEN Failed("panic", b0.fn)
    ELSE Let(compile(b0.fn, node.bound1), LAMBDA b1 :
         IF b1.st # "ok" THEN Failed(b1.st, b1.fn)
         ELSE IF ~ IsSome(b1.v) THEN Failed("panic", b1.fn)
         ELSE Let(compile(for_head(b1.fn, node, Unwrap(b0.v), Unwrap(b1.v)), node.block),
                  LAMBDA block :
              IF block.st # "ok" THEN Failed(block.st, block.fn)
              ELSE Lowered(for_tail(block.fn, node, next_instruction_index(b1.fn) + 1,
                                    next_instruction_index(b1.fn) + 2),
                           None))))

compile_while(fn, node) ==
    Let(compile(fn, node.condition), LAMBDA c :
    IF c.st # "ok" THEN Failed(c.st, c.fn)
    ELSE IF ~ IsSome(c.v) THEN Failed("panic", c.fn)
    ELSE Let(compile(add_instruction_type(c.fn,
                         Branch(node.line, Unwrap(c.v), next_instruction_index(c.fn) + 1, 0)),
                     node.block), LAMBDA block :
         IF block.st # "ok" THEN Failed(block.st, block.fn)
         ELSE Lowered(set_false_branch(
                          add_instruction_type(block.fn,
                              Goto(node.line, next_instruction_index(fn))),
                          next_instruction_index(c.fn),
                          next_instruction_index(block.fn) + 1),
                      None)))

\* VMFunction::compile
compile(fn, node) ==
    CASE node.kind = "Block" -> compile_statements(fn, node.statements)
      [] node.kind = "NumericValue" ->
            Lowered(fn, Some(Immediate(node.value, Some(node.text))))
      [] node.kind = "IdentifierValue" ->
            Lowered(fn, Some(VarValue(TokenVariable(node.text))))
      [] node.kind = "ReturnStatement" -> compile_return(fn, node)
      [] node.kind = "Expression" ->
            ( CASE node.expression_type = "Assignment" -> compile_assignment(fn, node)
                [] node.expression_type = "FunctionCall" -> compile_call(fn, node)
                [] node.expression_type \in {"MemberAccess", "Indexing"} ->
                      compile_place(fn, node)
                [] node.expression_type \in {"LogicalAnd", "LogicalOr"} ->
                      compile_logical(fn, node)
                [] OTHER -> compile_binary(fn, node) )
      [] node.kind = "IfStatement" -> compile_if(fn, node)
      [] node.kind = "ForLoop" -> compile_for(fn, node)
      [] node.kind = "WhileLoop" -> compile_while(fn, node)
      [] OTHER -> Failed("panic", fn)

\* compile_function with the fault of leaving out the implicit Return(None)
compile_function_unclosed(parsetree) ==
    IF parsetree.kind # "Function" THEN Failed("panic", VMFunction_new("", 0, << >>))
    ELSE Let(compile(VMFunction_new(parsetree.name, parsetree.line, parsetree.arguments),
                     parsetree.block), LAMBDA result :
         IF result.st # "ok" THEN Failed(result.st, result.fn) ELSE Lowered(result.fn, None))

\* compile_function: the body, then the implicit Return(None) on the line of
\* the function's name
compile_function(parsetree) ==
    IF parsetree.kind # "Function" THEN Failed("panic", VMFunction_new("", 0, << >>))
    ELSE Let(compile(VMFunction_new(parsetree.name, parsetree.line, parsetree.arguments),
                     parsetree.block), LAMBDA result :
         IF result.st # "ok" THEN Failed(result.st, result.fn)
         ELSE Lowered(add_instruction_type(result.fn,
                          Return(parsetree.line, Immediate(NoneValue, None))),
                      None))

----------------------------------------------------------------------------
(* virtualmachine/runtime.rs: ExecutionFrame.  A frame holds a clone of its *)
(* VMFunction; the functions never change after load, so the model's frame  *)
(* holds the function's name and reads the instructions from the table.     *)
(* variables is a map from names to values.  The operations on a frame      *)
(* return [st, ...] with st "ok", "err" (Err(GenericError)) or "panic", and *)
(* the frame as the operation left it, also when it failed.                 *)

\* UpdateData::variable and UpdateData::indexed
UpdateData_variable(name) == [var |-> name, index |-> None]

UpdateData_indexed(name, index) == [var |-> name, index |-> Some(index)]

EmptyMap == [x \in {} |-> NoneValue]

\* for (name, arg) in arg_names.zip(arguments) { variables.insert(name, arg) }
RECURSIVE bind_arguments(_, _, _)
bind_arguments(variables, arg_names, arguments) ==
    IF Len(arg_names) = 0 \/ Len(arguments) = 0 THEN variables
    ELSE bind_arguments((Head(arg_names) :> Head(arguments)) @@ variables,
                        Tail(arg_names), Tail(arguments))

\* ExecutionFrame::new
ExecutionFrame_new(function, arguments, last_lines) ==
    [function |-> function.name,
     variables |-> bind_arguments(EmptyMap, function.arguments, arguments),
     line |-> 0,
     last_line |-> Some(function.line),
     last_updated |-> << >>,
     last_read |-> << >>,
     return_value |-> None,
     passed_return |-> None,
     last_lines |-> last_lines]

\* ExecutionFrame::clear
Frame_clear(frame) == [frame EXCEPT !.last_updated = << >>, !.last_read = << >>]

assign_to_variable(frame, var_name, value) ==
    [frame EXCEPT !.variables = (var_name :> value) @@ @,
                  !.last_updated = Append(@, UpdateData_variable(var_name))]

touch_variable(frame, var_name) ==
    [frame EXCEPT !.last_updated = Append(@, UpdateData_variable(var_name))]

touch_variable_index(frame, var_name, index) ==
    [frame EXCEPT !.last_updated = Append(@, UpdateData_indexed(var_name, index))]

read_variable_index(frame, var_name, index) ==
    [frame EXCEPT !.last_read = Append(@, UpdateData_indexed(var_name, index))]

read_variable(frame, var_name, report) ==
    IF var_name \in DOMAIN frame.variables
    THEN [st |-> "ok", v |-> frame.variables[var_name],
          frame |-> IF report
                    THEN [frame EXCEPT !.last_read = Append(@, UpdateData_variable(var_name))]
                    ELSE frame]
    ELSE [st |-> "err", v |-> NoneValue, frame |-> frame]

Loaded(st, v, frame) == [st |-> st, v |-> v, frame |-> frame]

\* ExecutionFrame::load_value
RECURSIVE load_value(_, _, _, _)
load_value(frame, heap, value, report) ==
    CASE value.k = "MemberAccess" ->
            IF ~ IsSome(get_token(value.member)) THEN Loaded("panic", NoneValue, frame)
            ELSE Let(load_value(frame, heap, value.base, report), LAMBDA m :
                 IF m.st # "ok" THEN m
                 ELSE LET t == Unwrap(get_token(value.member))
                          r == builtin_member_access(heap, m.v, t)
                      IN  Loaded(r.st, r.v, IF report THEN touch_variable(m.frame, t)
                                                       ELSE m.frame))
      [] value.k = "Indexing" ->
            IF ~ IsSome(get_token(value.base)) THEN Loaded("panic", NoneValue, frame)
            ELSE Let(load_value(frame, heap, value.base, FALSE), LAMBDA m :
                 IF m.st # "ok" THEN m
                 ELSE Let(load_value(m.frame, heap, value.index, report), LAMBDA i :
                      IF i.st # "ok" THEN i
                      ELSE LET t == Unwrap(get_token(value.base))
                               r == builtin_indexing(heap, << m.v, i.v >>)
                           IN  Loaded(r.st, r.v,
                                      IF IsNumber(i.v) /\ report
                                      THEN read_variable_index(i.frame, t, as_usize(i.v))
                                      ELSE i.frame)))
      [] value.k = "Value" -> Loaded("ok", value.v, frame)
      [] OTHER -> read_variable(frame, value.var.name, report)

Stored(st, frame, heap) == [st |-> st, frame |-> frame, heap |-> heap]

\* ExecutionFrame::store_value_into
store_value_into(frame, heap, value, to_store) ==
    CASE value.k = "MemberAccess" ->
            IF ~ IsSome(get_token(value.base)) THEN Stored("panic", frame, heap)
            ELSE Let(load_value(touch_variable(frame, Unwrap(get_token(value.base))),
                                heap, value.base, FALSE), LAMBDA m :
                 IF m.st # "ok" THEN Stored(m.st, m.frame, heap)
                 ELSE IF ~ IsSome(get_token(value.member)) THEN Stored("panic", m.frame, heap)
                 ELSE LET r == builtin_mutable_member_access(heap, m.v,
                                   Unwrap(get_token(value.member)), to_store)
                      IN  Stored(r.st, m.frame, r.heap))
      [] value.k = "Indexing" ->
            IF ~ IsSome(get_token(value.base)) THEN Stored("panic", frame, heap)
            ELSE Let(load_value(frame, heap, value.base, FALSE), LAMBDA m :
                 IF m.st # "ok" THEN Stored(m.st, m.frame, heap)
                 ELSE Let(load_value(m.frame, heap, value.index, TRUE), LAMBDA i :
                      IF i.st # "ok" THEN Stored(i.st, i.frame, heap)
                      ELSE LET t == Unwrap(get_token(value.base))
                               r == builtin_mutable_indexing(heap, << m.v, i.v >>, to_store)
                           IN  Stored(r.st,
                                      IF IsNumber(i.v)
                                      THEN touch_variable_index(i.frame, t, as_usize(i.v))
                                      ELSE i.frame,
                                      r.heap)))
      [] value.k = "Value" -> Stored("err", frame, heap)
      [] OTHER -> Stored("ok", assign_to_variable(frame, value.var.name, to_store), heap)

\* ExecutionFrame::next_instruction: self.function.instructions.get(self.line)
next_instruction(functions, frame) ==
    IF frame.line < Len(functions[frame.function].instructions)
    THEN Some(functions[frame.function].instructions[frame.line + 1])
    ELSE None

\* next_instruction().map(|i| i.associated_line)
next_line(functions, frame) ==
    IF IsSome(next_instruction(functions, frame))
    THEN Some(Unwrap(next_instruction(functions, frame)).line)
    ELSE None

\* ExecutionFrame::builtin_function_call: Ok(Some(v)) for a builtin name,
\* Ok(None) for any other name
builtin_function_call(heap, name, arguments) ==
    LET pure(r) == [st |-> r.st, builtin |-> TRUE, v |-> r.v, heap |-> heap]
    IN  CASE name = "Print" -> pure(builtin_print(arguments))
          [] name = "Array" ->
                LET r == builtin_array(heap, arguments)
                IN  [st |-> r.st, builtin |-> TRUE, v |-> r.v, heap |-> r.heap]
          [] name = "AssertEqual" -> pure(builtin_assert_eq(heap, arguments))
          [] name = "floor" -> pure(builtin_floor(arguments))
          [] name = "ceil" -> pure(builtin_ceil(arguments))
          [] OTHER -> [st |-> "ok", builtin |-> FALSE, v |-> NoneValue, heap |-> heap]

\* for arg in arguments { argument_values.push(self.load_value(arg, true)?) }
RECURSIVE load_arguments(_, _, _)
load_arguments(frame, heap, arguments) ==
    IF Len(arguments) = 0 THEN [st |-> "ok", frame |-> frame, values |-> << >>]
    ELSE Let(load_value(frame, heap, Head(arguments), TRUE), LAMBDA first :
         IF first.st # "ok" THEN [st |-> first.st, frame |-> first.frame, values |-> << >>]
         ELSE Let(load_arguments(first.frame, heap, Tail(arguments)), LAMBDA rest :
              [st |-> rest.st, frame |-> rest.frame, values |-> << first.v >> \o rest.values]))

binary_builtin(heap, bop, a, b) ==
    CASE bop = "Add" -> builtin_add(<< a, b >>)
      [] bop = "Subtract" -> builtin_sub(<< a, b >>)
      [] bop = "Multiply" -> builtin_mul(<< a, b >>)
      [] bop = "Divide" -> builtin_div(<< a, b >>)
      [] bop = "LessThan" -> builtin_less_than(<< a, b >>)
      [] bop = "GreaterThan" -> builtin_greater_than(<< a, b >>)
      [] bop = "LessThanEqual" -> builtin_less_than_equal(<< a, b >>)
      [] bop = "GreaterThanEqual" -> builtin_greater_than_equal(<< a, b >>)
      [] bop = "Equality" -> builtin_equality(heap, << a, b >>)
      [] OTHER -> builtin_inequality(heap, << a, b >>)

----------------------------------------------------------------------------
(* ExecutionFrame::single_step: Result<Option<(VMVariable, Vec<Value>)>>.   *)
(* call is Some([function, arguments]) when the step signals a pending call.*)

Stepped(st, frame, heap, call) == [st |-> st, frame |-> frame, heap |-> heap, call |-> call]

\* the tail of every arm that does not return early
set_last_line(frame, instruction) == [frame EXCEPT !.last_line = Some(instruction.line)]

advance(frame) == [frame EXCEPT !.line = @ + 1]

\* store_and_advance with the fault of moving the cursor on before the store
store_and_advance_early(frame, heap, instruction, dest, to_store) ==
    Let(store_value_into(advance(frame), heap, dest, to_store), LAMBDA s :
    IF s.st # "ok" THEN Stepped(s.st, s.frame, s.heap, None)
    ELSE Stepped("ok", set_last_line(s.frame, instruction), s.heap, None))

\* store_value_into(dest, v)?; self.line += 1; and the tail of single_step
store_and_advance(frame, heap, instruction, dest, to_store) ==
    Let(store_value_into(frame, heap, dest, to_store), LAMBDA s :
    IF s.st # "ok" THEN Stepped(s.st, s.frame, s.heap, None)
    ELSE Stepped("ok", set_last_line(advance(s.frame), instruction), s.heap, None))

step_assign(frame, heap, instruction) ==
    Let(load_value(frame, heap, instruction.src, TRUE), LAMBDA v :
    IF v.st # "ok" THEN Stepped(v.st, v.frame, heap, None)
    ELSE store_and_advance(v.frame, heap, instruction, instruction.dest, v.v))

step_binary(frame, heap, instruction) ==
    Let(load_value(frame, heap, instruction.a, TRUE), LAMBDA a :
    IF a.st # "ok" THEN Stepped(a.st, a.frame, heap, None)
    ELSE Let(load_value(a.frame, heap, instruction.b, TRUE), LAMBDA b :
         IF b.st # "ok" THEN Stepped(b.st, b.frame, heap, None)
         ELSE Let(binary_builtin(heap, instruction.bop, a.v, b.v), LAMBDA to_store :
              IF to_store.st # "ok" THEN Stepped(to_store.st, b.frame, heap, None)
              ELSE store_and_advance(b.frame, heap, instruction,
                                     VarValue(instruction.dest), to_store.v))))

step_return(frame, heap, instruction) ==
    Let(load_value(frame, heap, instruction.value, TRUE), LAMBDA v :
    IF v.st # "ok" THEN Stepped(v.st, v.frame, heap, None)
    ELSE Stepped("ok",
                 set_last_line([v.frame EXCEPT !.return_value = Some(v.v)], instruction),
                 heap, None))

\* step_call with the fault of reading passed_return where the source takes it
step_call_remembering(frame, heap, instruction) ==
    IF IsSome(frame.passed_return)
    THEN store_and_advance(frame, heap, instruction,
                           VarValue(instruction.dest), Unwrap(frame.passed_return))
    ELSE Let(load_arguments(frame, heap, instruction.arguments), LAMBDA args :
         IF args.st # "ok" THEN Stepped(args.st, args.frame, heap, None)
         ELSE Let(builtin_function_call(heap, instruction.function.name, args.values),
                  LAMBDA r :
              IF r.st # "ok" THEN Stepped(r.st, args.frame, heap, None)
              ELSE IF r.builtin
                   THEN store_and_advance(args.frame, r.heap, instruction,
                                          VarValue(instruction.dest), r.v)
                   ELSE Stepped("ok", args.frame, heap,
                                Some([function |-> instruction.function,
                                      arguments |-> args.values]))))

\* step_call with the fault of moving the cursor on when it signals the call
step_call_advancing(frame, heap, instruction) ==
    IF IsSome(frame.passed_return)
    THEN store_and_advance([frame EXCEPT !.passed_return = None], heap, instruction,
                           VarValue(instruction.dest), Unwrap(frame.passed_return))
    ELSE Let(load_arguments(frame, heap, instruction.arguments), LAMBDA args :
         IF args.st # "ok" THEN Stepped(args.st, args.frame, heap, None)
         ELSE Let(builtin_function_call(heap, instruction.function.name, args.values),
                  LAMBDA r :
              IF r.st # "ok" THEN Stepped(r.st, args.frame, heap, None)
              ELSE IF r.builtin
                   THEN store_and_advance(args.frame, r.heap, instruction,
                                          VarValue(instruction.dest), r.v)
                   ELSE Stepped("ok", advance(args.frame), heap,
                                Some([function |-> instruction.function,
                                      arguments |-> args.values]))))

step_call(frame, heap, instruction) ==
    IF IsSome(frame.passed_return)
    THEN store_and_advance([frame EXCEPT !.passed_return = None], heap, instruction,
                           VarValue(instruction.dest), Unwrap(frame.passed_return))
    ELSE Let(load_arguments(frame, heap, instruction.arguments), LAMBDA args :
         IF args.st # "ok" THEN Stepped(args.st, args.frame, heap, None)
         ELSE Let(builtin_function_call(heap, instruction.function.name, args.values),
                  LAMBDA r :
              IF r.st # "ok" THEN Stepped(r.st, args.frame, heap, None)
              ELSE IF r.builtin
                   THEN store_and_advance(args.frame, r.heap, instruction,
                                          VarValue(instruction.dest), r.v)
                   ELSE Stepped("ok", args.frame, heap,
                                Some([function |-> instruction.function,
                                      arguments |-> args.values]))))

\* step_branch with the fault of taking a condition that is no Boolean as false
step_branch_lenient(frame, heap, instruction) ==
    Let(load_value(frame, heap, instruction.cond, TRUE), LAMBDA cond :
    IF cond.st # "ok" THEN Stepped(cond.st, cond.frame, heap, None)
    ELSE Stepped("ok",
                 set_last_line([cond.frame EXCEPT !.line =
                                    IF cond.v = Boolean(TRUE) THEN instruction.true_branch
                                                              ELSE instruction.false_branch],
                               instruction),
                 heap, None))

step_branch(frame, heap, instruction) ==
    Let(load_value(frame, heap, instruction.cond, TRUE), LAMBDA cond :
    IF cond.st # "ok" THEN Stepped(cond.st, cond.frame, heap, None)
    ELSE IF cond.v.tag # "Boolean" THEN Stepped("err", cond.frame, heap, None)
    ELSE Stepped("ok",
                 set_last_line([cond.frame EXCEPT !.line =
                                    IF cond.v.val = 1 THEN instruction.true_branch
                                                      ELSE instruction.false_branch],
                               instruction),
                 heap, None))

\* step_goto with the fault of leaving the cursor on the Goto
step_goto_staying(frame, heap, instruction) ==
    Stepped("ok", set_last_line(frame, instruction), heap, None)

step_goto(frame, heap, instruction) ==
    Stepped("ok", set_last_line([frame EXCEPT !.line = instruction.branch], instruction),
            heap, None)

\* ExecutionFrame::single_step; instructions[self.line] panics out of range
Frame_single_step(functions, frame, heap) ==
    IF ~ IsSome(next_instruction(functions, frame)) THEN Stepped("panic", frame, heap, None)
    ELSE Let(Unwrap(next_instruction(functions, frame)), LAMBDA instruction :
         CASE instruction.op = "Assign" -> step_assign(frame, heap, instruction)
           [] instruction.op = "BinaryOperation" -> step_binary(frame, heap, instruction)
           [] instruction.op = "Return" -> step_return(frame, heap, instruction)
           [] instruction.op = "FunctionCall" -> step_call(frame, heap, instruction)
           [] instruction.op = "Branch" -> step_branch(frame, heap, instruction)
           [] OTHER -> step_goto(frame, heap, instruction))

----------------------------------------------------------------------------
(* virtualmachine/runtime.rs: Runtime.  The stack is a sequence whose last  *)
(* element is the top frame.                                                *)

Last(stack) == stack[Len(stack)]

Pop(stack) == SubSeq(stack, 1, Len(stack) - 1)

ReplaceLast(stack, frame) == [stack EXCEPT ![Len(stack)] = frame]

\* Runtime::load: a later function of the same name replaces an earlier one
RECURSIVE Runtime_load(_)
Runtime_load(fns) ==
    IF Len(fns) = 0 THEN [x \in {} |-> VMFunction_new("", 0, << >>)]
    ELSE (Last(fns).name :> Last(fns)) @@ Runtime_load(Pop(fns))

\* add_stack_frame with the fault of binding the parameters in the variables
\* of the calling frame too
add_stack_frame_binding_caller(functions, stack, function_name, arguments) ==
    IF function_name.name \in DOMAIN functions
    THEN LET v == IF Len(stack) = 0 THEN << >>
                  ELSE Last(stack).last_lines \o next_line(functions, Last(stack))
             new == ExecutionFrame_new(functions[function_name.name], arguments, v)
         IN  [st |-> "ok",
              stack |-> Append(IF Len(stack) = 0 THEN stack
                               ELSE ReplaceLast(stack, [Last(stack) EXCEPT
                                                           !.variables = new.variables @@ @]),
                               new)]
    ELSE [st |-> "err", stack |-> stack]

\* Runtime::add_stack_frame
add_stack_frame(functions, stack, function_name, arguments) ==
    IF function_name.name \in DOMAIN functions
    THEN LET v == IF Len(stack) = 0 THEN << >>
                  ELSE Last(stack).last_lines \o next_line(functions, Last(stack))
         IN  [st |-> "ok",
              stack |-> Append(stack, ExecutionFrame_new(functions[function_name.name],
                                                         arguments, v))]
    ELSE [st |-> "err", stack |-> stack]

\* Runtime::start_execution
start_execution(functions, stack, function_name) ==
    IF function_name \in DOMAIN functions
    THEN [st |-> "ok",
          stack |-> Append(stack, ExecutionFrame_new(functions[function_name], << >>, << >>))]
    ELSE [st |-> "err", stack |-> stack]

RanStep(st, flag, stack, heap) == [st |-> st, flag |-> flag, stack |-> stack, heap |-> heap]

\* what Runtime::single_step does once the top frame's return_value is set
\* and passed: the popped stack, with the value in the new top's passed_return
\* pop_frame with the fault of dropping the popped value
pop_frame_dropping(stack) == Pop(stack)

\* pop_frame with the fault of leaving the frame on the stack, its return
\* value taken
pop_frame_keeping(stack) ==
    ReplaceLast(stack, [Last(stack) EXCEPT !.return_value = None])

pop_frame(stack) ==
    LET value == Unwrap(Last(stack).return_value)
        rest == Pop(stack)
    IN  IF Len(rest) = 0 THEN rest
        ELSE ReplaceLast(rest, [Last(rest) EXCEPT !.passed_return = Some(value)])

\* Runtime::single_step: Result<bool, GenericError>
RECURSIVE Runtime_single_step(_, _, _)
Runtime_single_step(functions, stack, heap) ==
    IF Len(stack) = 0 THEN RanStep("ok", TRUE, stack, heap)
    ELSE IF IsSome(Last(stack).return_value)
    THEN Let(Runtime_single_step(functions, pop_frame(stack), heap), LAMBDA again :
         RanStep(again.st, TRUE, again.stack, again.heap))
    ELSE Let(Frame_single_step(functions, Last(stack), heap), LAMBDA r :
         IF r.st # "ok" THEN RanStep(r.st, FALSE, ReplaceLast(stack, r.frame), r.heap)
         ELSE IF IsSome(r.call)
         THEN Let(add_stack_frame(functions, ReplaceLast(stack, r.frame),
                                  Unwrap(r.call).function, Unwrap(r.call).arguments),
                  LAMBDA pushed : RanStep(pushed.st, TRUE, pushed.stack, r.heap))
         ELSE LET at_start == next_line(functions, Last(stack))
                  at_end == next_line(functions, r.frame)
              IN  RanStep("ok", at_start # at_end, ReplaceLast(stack, r.frame), r.heap))

\* Runtime::is_done
is_done(stack) == Len(stack) = 0

\* Runtime::clear
Runtime_clear(stack) ==
    IF Len(stack) = 0 THEN stack ELSE ReplaceLast(stack, Frame_clear(Last(stack)))

----------------------------------------------------------------------------
(* interpreter: ParseTreeNode::execute, execute_mutable, Function::execute, *)
(* RunTime::execute_function.  The Executor is its variable map; the heap   *)
(* is shared by every Executor of a run.  execute returns                   *)
(* Result<(Value, bool), GenericError>: [st, v, ret, variables, heap] with  *)
(* st "ok", "err" or "panic" (todo!()) and ret the `returning` flag.        *)

Executed(st, v, ret, variables, heap) ==
    [st |-> st, v |-> v, ret |-> ret, variables |-> variables, heap |-> heap]

\* ParseTreeNode::get_token(): the text of the node's token; the token of an
\* Expression is symbols[0]
RECURSIVE node_token(_)
node_token(node) ==
    CASE node.kind \in {"IdentifierValue", "NumericValue"} -> node.text
      [] node.kind = "Expression" ->
            ( CASE node.expression_type = "Assignment" -> "="
                [] node.expression_type = "Add" -> "+"
                [] node.expression_type = "Subtract" -> "-"
                [] node.expression_type = "Multiply" -> "*"
                [] node.expression_type = "Divide" -> "/"
                [] node.expression_type = "MemberAccess" -> "."
                [] node.expression_type = "Indexing" -> "["
                [] node.expression_type = "LogicalOr" -> "or"
                [] node.expression_type = "LogicalAnd" -> "and"
                [] node.expression_type = "LessThan" -> "<"
                [] node.expression_type = "GreaterThan" -> ">"
                [] node.expression_type = "LessThanEqual" -> "<="
                [] node.expression_type = "GreaterThanEqual" -> ">="
                [] node.expression_type = "Equality" -> "=="
                [] node.expression_type = "Inequality" -> "!="
                [] OTHER -> "(" )
      [] node.kind = "ReturnStatement" -> "return"
      [] node.kind = "IfStatement" -> "if"
      [] node.kind = "ForLoop" -> "for"
      [] node.kind = "WhileLoop" -> "while"
      [] node.kind = "Block" -> node_token(node.statements[1])
      [] OTHER -> node.name

\* interpreter/function.rs: Function::new over the parsed functions,
\* RunTime::new: a later function of the same name replaces an earlier one
RECURSIVE RunTime_new(_)
RunTime_new(parsed_functions) ==
    IF Len(parsed_functions) = 0 THEN [x \in {} |-> Function(0, "", << >>, Block(<< >>))]
    ELSE (Last(parsed_functions).name :> Last(parsed_functions))
             @@ RunTime_new(Pop(parsed_functions))

RECURSIVE execute(_, _, _, _)
RECURSIVE execute_children(_, _, _, _)
RECURSIVE execute_block(_, _, _, _, _)
RECURSIVE execute_mutable(_, _, _, _, _)
RECURSIVE execute_function(_, _, _, _)
RECURSIVE execute_for(_, _, _, _, _, _)
RECURSIVE execute_ifs(_, _, _, _)

\* args_iter.collect::<Result<Vec<_>, _>>(): the children in order, up to the
\* first error
execute_children(runtime, children, variables, heap) ==
    IF Len(children) = 0
    THEN [st |-> "ok", values |-> << >>, variables |-> variables, heap |-> heap]
    ELSE LET first == execute(runtime, Head(children), variables, heap)
         IN  IF first.st # "ok"
             THEN [st |-> first.st, values |-> << >>,
                   variables |-> first.variables, heap |-> first.heap]
             ELSE LET rest == execute_children(runtime, Tail(children),
                                               first.variables, first.heap)
                  IN  [st |-> rest.st, values |-> << first.v >> \o rest.values,
                       variables |-> rest.variables, heap |-> rest.heap]

\* Block: last = statement.execute()?; if last.1 { break }
execute_block(runtime, statements, last, variables, heap) ==
    IF Len(statements) = 0 THEN Executed("ok", last.v, last.ret, variables, heap)
    ELSE LET r == execute(runtime, Head(statements), variables, heap)
         IN  IF r.st # "ok" THEN r
             ELSE IF r.ret THEN r
             ELSE execute_block(runtime, Tail(statements), r, r.variables, r.heap)

\* Function::execute: a new Executor holding the arguments
Function_execute(runtime, func, arguments, heap) ==
    LET r == execute(runtime, func.block,
                     bind_arguments(EmptyMap, func.arguments, arguments), heap)
    IN  [st |-> r.st, v |-> r.v, heap |-> r.heap]

\* RunTime::inner_execute_function: Ok(None) when the function is not defined
inner_execute_function(runtime, func_name, arguments, heap) ==
    IF func_name \in DOMAIN runtime
    THEN IF Len(arguments) # Len(runtime[func_name].arguments)
         THEN [st |-> "err", defined |-> TRUE, v |-> NoneValue, heap |-> heap]
         ELSE LET r == Function_execute(runtime, runtime[func_name], arguments, heap)
              IN  [st |-> r.st, defined |-> TRUE, v |-> r.v, heap |-> r.heap]
    ELSE [st |-> "ok", defined |-> FALSE, v |-> NoneValue, heap |-> heap]

\* RunTime::execute_function (through Executor::execute_function)
execute_function(runtime, name, arguments, heap) ==
    LET pure(r) == [st |-> r.st, v |-> r.v, heap |-> heap]
    IN  CASE name = "AssertEqual" -> pure(builtin_assert_eq(heap, arguments))
          [] name = "Array" ->
                LET r == builtin_array(heap, arguments)
                IN  [st |-> r.st, v |-> r.v, heap |-> r.heap]
          [] name = "Print" -> pure(builtin_print(arguments))
          [] name = "ceil" -> pure(builtin_ceil(arguments))
          [] name = "floor" -> pure(builtin_floor(arguments))
          [] OTHER ->
                LET r == inner_execute_function(runtime, name, arguments, heap)
                IN  IF r.st # "ok" THEN [st |-> r.st, v |-> NoneValue, heap |-> r.heap]
                    ELSE IF r.defined THEN [st |-> "ok", v |-> r.v, heap |-> r.heap]
                    ELSE [st |-> "err", v |-> NoneValue, heap |-> r.heap]

\* builtin_logical_and / builtin_logical_or: b is executed only when a does
\* not decide
execute_logical(runtime, node, variables, heap) ==
    LET decisive == IF node.expression_type = "LogicalAnd" THEN 0 ELSE 1
        a == execute(runtime, node.children[1], variables, heap)
    IN  IF Len(node.children) # 2 THEN Executed("err", NoneValue, FALSE, variables, heap)
        ELSE IF a.st # "ok" THEN Executed(a.st, NoneValue, FALSE, a.variables, a.heap)
        ELSE IF a.v.tag # "Boolean" THEN Executed("err", NoneValue, FALSE, a.variables, a.heap)
        ELSE IF a.v.val = decisive
             THEN Executed("ok", Boolean(decisive = 1), FALSE, a.variables, a.heap)
        ELSE LET b == execute(runtime, node.children[2], a.variables, a.heap)
             IN  IF b.st # "ok" THEN Executed(b.st, NoneValue, FALSE, b.variables, b.heap)
                 ELSE IF b.v.tag # "Boolean"
                      THEN Executed("err", NoneValue, FALSE, b.variables, b.heap)
                 ELSE Executed("ok", b.v, FALSE, b.variables, b.heap)

execute_expression(runtime, node, variables, heap) ==
    CASE node.expression_type = "FunctionCall" ->
            LET args == execute_children(runtime, Tail(node.children), variables, heap)
                f == node.children[1]
            IN  IF args.st # "ok"
                THEN Executed(args.st, NoneValue, FALSE, args.variables, args.heap)
                ELSE IF f.kind # "IdentifierValue"
                THEN Executed("err", NoneValue, FALSE, args.variables, args.heap)
                ELSE LET r == execute_function(runtime, f.text, args.values, args.heap)
                     IN  Executed(r.st, r.v, FALSE, args.variables, r.heap)
      [] node.expression_type = "Assignment" ->
            LET value == execute(runtime, node.children[2], variables, heap)
            IN  IF value.st # "ok" THEN value
                ELSE LET m == execute_mutable(runtime, node.children[1],
                                              value.variables, value.heap, value.v)
                     IN  Executed(m.st, IF m.st = "ok" THEN value.v ELSE NoneValue, FALSE,
                                  m.variables, m.heap)
      [] node.expression_type \in {"LogicalAnd", "LogicalOr"} ->
            execute_logical(runtime, node, variables, heap)
      [] node.expression_type = "Indexing" ->
            LET args == execute_children(runtime, node.children, variables, heap)
            IN  IF args.st # "ok"
                THEN Executed(args.st, NoneValue, FALSE, args.variables, args.heap)
                ELSE LET r == builtin_indexing(args.heap, args.values)
                     IN  Executed(r.st, r.v, FALSE, args.variables, args.heap)
      [] node.expression_type = "MemberAccess" ->
            LET v == execute(runtime, node.children[1], variables, heap)
            IN  IF v.st # "ok" THEN v
                ELSE LET r == builtin_member_access(v.heap, v.v, node_token(node.children[2]))
                     IN  Executed(r.st, r.v, FALSE, v.variables, v.heap)
      [] OTHER ->
            LET args == execute_children(runtime, node.children, variables, heap)
            IN  IF args.st # "ok"
                THEN Executed(args.st, NoneValue, FALSE, args.variables, args.heap)
                ELSE LET r == IF Len(args.values) # 2 THEN Err
                              ELSE binary_builtin(args.heap, node.expression_type,
                                                  args.values[1], args.values[2])
                     IN  Executed(r.st, r.v, FALSE, args.variables, args.heap)

\* the loop of ForLoop: the flag and the value of the block are dropped
execute_for(runtime, node, i, value1_number, variables, heap) ==
    IF (~ node.reverse /\ i <= value1_number) \/ (node.reverse /\ i >= value1_number)
    THEN LET r == execute(runtime, node.block,
                          (node.loop_variable :> Num(i)) @@ variables, heap)
         IN  IF r.st # "ok" THEN r
             ELSE execute_for(runtime, node, IF node.reverse THEN i - 1 ELSE i + 1,
                              value1_number, r.variables, r.heap)
    ELSE Executed("ok", NoneValue, FALSE, variables, heap)

\* the clauses of IfStatement: the flag and the value of the block are dropped
execute_ifs(runtime, node, variables, heap) ==
    IF Len(node.ifs) = 0
    THEN IF IsSome(node.else_block)
         THEN LET r == execute(runtime, Unwrap(node.else_block), variables, heap)
              IN  IF r.st # "ok" THEN r
                  ELSE Executed("ok", NoneValue, FALSE, r.variables, r.heap)
         ELSE Executed("ok", NoneValue, FALSE, variables, heap)
    ELSE LET clause == Head(node.ifs)
             c == execute(runtime, clause.condition, variables, heap)
         IN  IF c.st # "ok" THEN c
             ELSE IF c.v.tag # "Boolean"
                  THEN Executed("err", NoneValue, FALSE, c.variables, c.heap)
             ELSE IF c.v.val = 1
                  THEN LET r == execute(runtime, clause.block, c.variables, c.heap)
                       IN  IF r.st # "ok" THEN r
                           ELSE Executed("ok", NoneValue, FALSE, r.variables, r.heap)
             ELSE execute_ifs(runtime, [node EXCEPT !.ifs = Tail(@)], c.variables, c.heap)

\* ParseTreeNode::execute
execute(runtime, node, variables, heap) ==
    CASE node.kind = "Block" ->
            execute_block(runtime, node.statements, [v |-> NoneValue, ret |-> FALSE],
                          variables, heap)
      [] node.kind = "Expression" -> execute_expression(runtime, node, variables, heap)
      [] node.kind = "NumericValue" -> Executed("ok", node.value, FALSE, variables, heap)
      [] node.kind = "IdentifierValue" ->
            IF node.text = "True" THEN Executed("ok", Boolean(TRUE), FALSE, variables, heap)
            ELSE IF node.text = "False"
                 THEN Executed("ok", Boolean(FALSE), FALSE, variables, heap)
            ELSE IF node.text \in DOMAIN variables
                 THEN Executed("ok", variables[node.text], FALSE, variables, heap)
            ELSE Executed("err", NoneValue, FALSE, variables, heap)
      [] node.kind = "ReturnStatement" ->
            IF IsSome(node.expression)
            THEN LET v == execute(runtime, Unwrap(node.expression), variables, heap)
                 IN  IF v.st # "ok" THEN v ELSE [v EXCEPT !.ret = TRUE]
            ELSE Executed("ok", NoneValue, TRUE, variables, heap)
      [] node.kind = "ForLoop" ->
            LET value0 == execute(runtime, node.bound0, variables, heap)
            IN  IF value0.st # "ok" THEN value0
                ELSE LET value1 == execute(runtime, node.bound1, value0.variables, value0.heap)
                     IN  IF value1.st # "ok" THEN value1
                         ELSE IF ~ IsNumber(value0.v) \/ fract(value0.v) # 0
                              THEN Executed("err", NoneValue, FALSE,
                                            value1.variables, value1.heap)
                         ELSE IF ~ IsNumber(value1.v) \/ fract(value1.v) # 0
                              THEN Executed("err", NoneValue, FALSE,
                                            value1.variables, value1.heap)
                         ELSE execute_for(runtime, node, value0.v.val \div 2,
                                          value1.v.val \div 2,
                                          value1.variables, value1.heap)
      [] node.kind = "IfStatement" -> execute_ifs(runtime, node, variables, heap)
      [] OTHER -> Executed("panic", NoneValue, FALSE, variables, heap)

\* ParseTreeNode::execute_mutable
execute_mutable(runtime, node, variables, heap, value) ==
    CASE node.kind = "IdentifierValue" ->
            IF node.text = "True" \/ node.text = "False"
            THEN Executed("err", NoneValue, FALSE, variables, heap)
            ELSE Executed("ok", NoneValue, FALSE, (node.text :> value) @@ variables, heap)
      [] node.kind = "Expression" /\ node.expression_type = "Indexing" ->
            LET args == execute_children(runtime, node.children, variables, heap)
            IN  IF args.st # "ok"
                THEN Executed(args.st, NoneValue, FALSE, args.variables, args.heap)
                ELSE LET r == builtin_mutable_indexing(args.heap, args.values, value)
                     IN  Executed(r.st, NoneValue, FALSE, args.variables, r.heap)
      [] node.kind = "Expression" /\ node.expression_type = "MemberAccess" ->
            LET v == execute(runtime, node.children[1], variables, heap)
            IN  IF v.st # "ok" THEN v
                ELSE LET r == builtin_mutable_member_access(v.heap, v.v,
                                  node_token(node.children[2]), value)
                     IN  Executed(r.st, NoneValue, FALSE, v.variables, r.heap)
      [] OTHER -> Executed("err", NoneValue, FALSE, variables, heap)

----------------------------------------------------------------------------
(* The source programs the tool chain is run on, as the parse trees that    *)
(* parse_document returns for them.  Lines count from 0 as Location.line    *)
(* does.  A source is [name, a, b, c]: a family of programs and the numbers *)
(* its text holds.                                                          *)

MaxBound == 3

MaxIndexHalves == 6

\* the binary operators of the chain texts, each as its characters
ChainOperators ==
    << << "-" >>,
       << "+" >>,
       << "*" >>,
       << "/" >>,
       << "<" >>,
       << ">" >>,
       << "<", "=" >>,
       << ">", "=" >>,
       << "=", "=" >>,
       << "!", "=" >>,
       << "a", "n", "d" >>,
       << "o", "r" >> >>

\* the level of parse_*_expressions of a chain operator
ChainLevel(i) ==
    CHOOSE l \in 1..Len(BinaryOperators) :
        Concat(ChainOperators[i]) \in DOMAIN BinaryOperators[l].types

\* the pairs of chain operators of one level
ChainPairs ==
    {pair \in (1..Len(ChainOperators)) \X (1..Len(ChainOperators)) :
        ChainLevel(pair[1]) = ChainLevel(pair[2])}

\* a chain of two operators
ChainText(a, b) ==
    \* Test()
    << "T", "e", "s", "t", "(", ")", "\n" >> \o
    \*   return 10 <operator a> 3 <operator b> 2
    << " ", " ", "r", "e", "t", "u", "r", "n", " ", "1", "0", " " >> \o ChainOperators[a] \o << " ", "3", " " >> \o ChainOperators[b] \o << " ", "2", "\n" >>

Id(line, text) == IdentifierValue(line, text)

\* a numeric literal of h halves: "2" is 4 halves, "1.5" is 3 halves
Lit(line, h) ==
    NumericValue(line, ToString(h \div 2) \o (IF h % 2 = 1 THEN ".5" ELSE ""), Number(h))

N(line, n) == Lit(line, n + n)

Op(expression_type, line, a, b) == Expression(expression_type, line, << a, b >>)

Call(line, name, args) == Expression("FunctionCall", line, << Id(line, name) >> \o args)

Fn(line, name, arguments, statements) == Function(line, name, arguments, Block(statements))

\* the right operand of the and_value and or_value programs
Operand(line, c) ==
    CASE c = 0 -> N(line, 5)
      [] c = 1 -> Call(line, "Array", << N(line, 1) >>)
      [] c = 2 -> Call(line, "AssertEqual", << N(line, 1), N(line, 1) >>)
      [] OTHER -> Op("LessThan", line, N(line, 1), N(line, 2))

AddFn == Fn(0, "Add", << "a", "b" >>,
            << ReturnStatement(1, Op("Add", 1, Id(1, "a"), Id(1, "b"))) >>)

MarkFn == Fn(0, "Mark", << "A" >>,
             << Op("Assignment", 1, Op("Indexing", 1, Id(1, "A"), N(1, 1)), N(1, 1)),
                ReturnStatement(2, Op("LessThan", 2, N(2, 1), N(2, 2))) >>)

SetFn == Fn(0, "Set", << "A", "v" >>,
            << Op("Assignment", 1, Op("Indexing", 1, Id(1, "A"), N(1, 1)), Id(1, "v")),
               Op("Assignment", 2, Op("MemberAccess", 2, Id(2, "A"), Id(2, "heapsize")),
                  Id(2, "v")),
               ReturnStatement(3, N(3, 0)) >>)

\* x = Array(1, 2)
NewPair(line, x) ==
    Op("Assignment", line, Id(line, x), Call(line, "Array", << N(line, 1), N(line, 2) >>))

\* the body of the logical programs: (a < b) and/or rhs
Logical(expression_type, line, a, b, rhs) ==
    Op(expression_type, line, Op("LessThan", line, N(line, a), N(line, b)), rhs)

\* the ExpressionType of a chain operator
ChainType(i) == BinaryOperators[ChainLevel(i)].types[Concat(ChainOperators[i])]

\* 10 <a> (3 <b> 2) as the parse tree of the return statement of a chain text
GroupedRight(a, b) ==
    ReturnStatement(1, Op(ChainType(a), 1, N(1, 10), Op(ChainType(b), 1, N(1, 3), N(1, 2))))

\* the parse tree of the chain text of the operators a and b
ChainTree(a, b) == << Fn(0, "Test", << >>, << GroupedRight(a, b) >>) >>

Tree(s) ==
    CASE s.name = "add_call" ->
            << AddFn,
               Fn(2, "Test", << >>,
                  << Op("Assignment", 3, Id(3, "x"), N(3, s.a)),
                     Op("Assignment", 4, Id(4, "y"), N(4, s.b)),
                     ReturnStatement(5, Call(5, "Add", << Id(5, "x"), Id(5, "y") >>)) >>) >>
      [] s.name = "nested_call" ->
            << AddFn,
               Fn(2, "Twice", << "n" >>,
                  << ReturnStatement(3, Call(3, "Add", << Id(3, "n"), Id(3, "n") >>)) >>),
               Fn(4, "Test", << >>,
                  << ReturnStatement(5, Op("Add", 5, Call(5, "Twice", << N(5, s.a) >>),
                                           N(5, 1))) >>) >>
      [] s.name = "for_trace" ->
            << Fn(0, "Test", << >>,
                  << Op("Assignment", 1, Id(1, "T"),
                        Call(1, "Array", [i \in 1..(MaxBound + 1) |-> N(1, 0)])),
                     ForLoop(2, "k", N(2, s.a), N(2, s.b), s.c = 1,
                        Block(<< Op("Assignment", 3,
                                    Op("MemberAccess", 3, Id(3, "T"), Id(3, "heapsize")),
                                    Op("Add", 3,
                                       Op("MemberAccess", 3, Id(3, "T"), Id(3, "heapsize")),
                                       N(3, 1))),
                                 Op("Assignment", 4,
                                    Op("Indexing", 4, Id(4, "T"),
                                       Op("MemberAccess", 4, Id(4, "T"), Id(4, "heapsize"))),
                                    Id(4, "k")) >>)),
                     ReturnStatement(5, Id(5, "T")) >>) >>
      [] s.name = "for_sum" ->
            << Fn(0, "Test", << >>,
                  << Op("Assignment", 1, Id(1, "i"), N(1, 0)),
                     ForLoop(2, "k", N(2, s.a), N(2, s.b), s.c = 1,
                        Block(<< Op("Assignment", 3, Id(3, "i"),
                                    Op("Add", 3, Id(3, "i"), Id(3, "k"))) >>)),
                     ReturnStatement(4, Id(4, "i")) >>) >>
      [] s.name = "array_sum" ->
            << Fn(0, "Test", << >>,
                  << Op("Assignment", 1, Id(1, "a"),
                        Call(1, "Array", << N(1, 7), N(1, 8), N(1, 9) >>)),
                     Op("Assignment", 2, Op("Indexing", 2, Id(2, "a"), N(2, 2)), N(2, 42)),
                     ReturnStatement(3,
                        Op("Add", 3, Op("Indexing", 3, Id(3, "a"), N(3, 1)),
                           Op("Add", 3, Op("Indexing", 3, Id(3, "a"), N(3, 2)),
                              Op("Indexing", 3, Id(3, "a"), N(3, 3))))) >>) >>
      [] s.name = "if_return_bool" ->
            << Fn(0, "Test", << >>,
                  << IfStatement(
                        << Clause(1, Op("LessThan", 1, N(1, s.a), N(1, s.b)),
                                  Block(<< ReturnStatement(2, Id(2, "True")) >>)) >>,
                        Some(Block(<< ReturnStatement(4, Id(4, "False")) >>))) >>) >>
      [] s.name = "if_return" ->
            << Fn(0, "Test", << >>,
                  << Op("Assignment", 1, Id(1, "x"), N(1, 0)),
                     IfStatement(
                        << Clause(2, Op("LessThan", 2, N(2, s.a), N(2, s.b)),
                                  Block(<< ReturnStatement(3, N(3, 1)) >>)),
                           Clause(4, Op("Equality", 4, N(4, s.a), N(4, s.b)),
                                  Block(<< ReturnStatement(5, N(5, 2)) >>)) >>,
                        Some(Block(<< ReturnStatement(7, N(7, 3)) >>))),
                     Op("Assignment", 8, Id(8, "x"), N(8, 9)),
                     ReturnStatement(9, N(9, 4)) >>) >>
      [] s.name = "alias_index" ->
            << Fn(0, "Test", << >>,
                  << NewPair(1, "x"),
                     Op("Assignment", 2, Id(2, "y"), Id(2, "x")),
                     Op("Assignment", 3, Op("Indexing", 3, Id(3, "y"), N(3, s.b)), N(3, s.a)),
                     ReturnStatement(4, Op("Indexing", 4, Id(4, "x"), N(4, s.b))) >>) >>
      [] s.name = "alias_heapsize" ->
            << Fn(0, "Test", << >>,
                  << NewPair(1, "x"),
                     Op("Assignment", 2, Id(2, "y"), Id(2, "x")),
                     Op("Assignment", 3,
                        Op("MemberAccess", 3, Id(3, "x"), Id(3, "heapsize")), N(3, s.a)),
                     ReturnStatement(4,
                        Op("MemberAccess", 4, Id(4, "y"), Id(4, "heapsize"))) >>) >>
      [] s.name = "alias_call" ->
            << SetFn,
               Fn(4, "Test", << >>,
                  << NewPair(5, "x"),
                     Op("Assignment", 6, Id(6, "r"),
                        Call(6, "Set", << Id(6, "x"), N(6, s.a) >>)),
                     ReturnStatement(7,
                        Op("Add", 7, Op("Indexing", 7, Id(7, "x"), N(7, 1)),
                           Op("MemberAccess", 7, Id(7, "x"), Id(7, "heapsize")))) >>) >>
      [] s.name = "index_var" ->
            << Fn(0, "Test", << >>,
                  << Op("Assignment", 1, Id(1, "x"),
                        Call(1, "Array", << N(1, 10), N(1, 20) >>)),
                     Op("Assignment", 2, Id(2, "k"), Op("Subtract", 2, Lit(2, s.a), Lit(2, s.b))),
                     ReturnStatement(3, Op("Indexing", 3, Id(3, "x"), Id(3, "k"))) >>) >>
      [] s.name = "index_direct" ->
            << Fn(0, "Test", << >>,
                  << ReturnStatement(1,
                        Op("Indexing", 1, Call(1, "Array", << N(1, 10) >>),
                           Lit(1, s.a))) >>) >>
      [] s.name = "and_undefined" ->
            << Fn(0, "Test", << >>,
                  << ReturnStatement(1, Logical("LogicalAnd", 1, s.a, s.b, Id(1, "u"))) >>) >>
      [] s.name = "or_undefined" ->
            << Fn(0, "Test", << >>,
                  << ReturnStatement(1, Logical("LogicalOr", 1, s.a, s.b, Id(1, "u"))) >>) >>
      [] s.name = "and_call" ->
            << MarkFn,
               Fn(3, "Test", << >>,
                  << Op("Assignment", 4, Id(4, "x"), Call(4, "Array", << N(4, 0) >>)),
                     Op("Assignment", 5, Id(5, "y"),
                        Logical("LogicalAnd", 5, s.a, s.b, Call(5, "Mark", << Id(5, "x") >>))),
                     ReturnStatement(6, Op("Indexing", 6, Id(6, "x"), N(6, 1))) >>) >>
      [] s.name = "or_call" ->
            << MarkFn,
               Fn(3, "Test", << >>,
                  << Op("Assignment", 4, Id(4, "x"), Call(4, "Array", << N(4, 0) >>)),
                     Op("Assignment", 5, Id(5, "y"),
                        Logical("LogicalOr", 5, s.a, s.b, Call(5, "Mark", << Id(5, "x") >>))),
                     ReturnStatement(6, Op("Indexing", 6, Id(6, "x"), N(6, 1))) >>) >>
      [] s.name = "false_and_undefined" ->
            << Fn(0, "Test", << >>,
                  << ReturnStatement(1,
                        Op("LogicalAnd", 1, Id(1, "False"), Id(1, "u"))) >>) >>
      [] s.name = "and_value" ->
            << Fn(0, "Test", << >>,
                  << ReturnStatement(1,
                        Logical("LogicalAnd", 1, s.a, s.b, Operand(1, s.c))) >>) >>
      [] s.name = "or_value" ->
            << Fn(0, "Test", << >>,
                  << ReturnStatement(1,
                        Logical("LogicalOr", 1, s.a, s.b, Operand(1, s.c))) >>) >>
      [] s.name = "return_true" ->
            << Fn(0, "Test", << >>, << ReturnStatement(1, Id(1, "True")) >>) >>
      [] s.name = "return_false" ->
            << Fn(0, "Test", << >>, << ReturnStatement(1, Id(1, "False")) >>) >>
      [] s.name = "while_count" ->
            << Fn(0, "Test", << >>,
                  << Op("Assignment", 1, Id(1, "i"), N(1, 0)),
                     WhileLoop(2, Op("LessThan", 2, Id(2, "i"), N(2, s.a)),
                        Block(<< Op("Assignment", 3, Id(3, "i"),
                                    Op("Add", 3, Id(3, "i"), N(3, 1))) >>)),
                     ReturnStatement(4, Id(4, "i")) >>) >>
      [] s.name = "recursive" ->
            \* Down(n) / return (n < 1) or Down(n - 1) / Test() / return Down(a)
            << Fn(0, "Down", << "n" >>,
                  << ReturnStatement(1,
                        Op("LogicalOr", 1, Op("LessThan", 1, Id(1, "n"), N(1, 1)),
                           Call(1, "Down", << Op("Subtract", 1, Id(1, "n"), N(1, 1)) >>))) >>),
               Fn(2, "Test", << >>,
                  << ReturnStatement(3, Call(3, "Down", << N(3, s.a) >>)) >>) >>
      [] s.name = "while_first" ->
            \* a function whose first statement is a while loop
            << Fn(0, "Loop", << "i" >>,
                  << WhileLoop(1, Op("LessThan", 1, Id(1, "i"), N(1, s.a)),
                        Block(<< Op("Assignment", 2, Id(2, "i"),
                                    Op("Add", 2, Id(2, "i"), N(2, 1))) >>)),
                     ReturnStatement(3, Id(3, "i")) >>),
               Fn(4, "Test", << >>,
                  << ReturnStatement(5, Call(5, "Loop", << N(5, 0) >>)) >>) >>
      [] s.name = "bare_statements" ->
            \* statements that are only an identifier, an index expression, a number
            << Fn(0, "Test", << >>,
                  << NewPair(1, "A"),
                     Id(2, "A"),
                     Op("Indexing", 3, Id(3, "A"), N(3, 1)),
                     N(4, 5),
                     ReturnStatement(5, Op("Indexing", 5, Id(5, "A"), N(5, 1))) >>) >>
      [] s.name = "nested" ->
            \* for / if-elseif-else / while / and / or inside one another
            << Fn(0, "Test", << >>,
                  << Op("Assignment", 1, Id(1, "s"), N(1, 0)),
                     ForLoop(2, "k", N(2, 0), N(2, s.a), FALSE,
                        Block(<< IfStatement(
                           << Clause(3, Op("LogicalOr", 3,
                                            Op("LessThan", 3, Id(3, "k"), N(3, 1)),
                                            Op("Equality", 3, Id(3, "k"), N(3, 2))),
                                     Block(<< Op("Assignment", 4, Id(4, "s"),
                                                 Op("Add", 4, Id(4, "s"), N(4, 1))) >>)),
                              Clause(5, Op("LogicalAnd", 5,
                                            Op("LessThan", 5, Id(5, "k"), N(5, 3)),
                                            Op("LessThan", 5, N(5, 1), N(5, 2))),
                                     Block(<< Op("Assignment", 6, Id(6, "j"), N(6, 0)),
                                              WhileLoop(7, Op("LessThan", 7, Id(7, "j"), Id(7, "k")),
                                                 Block(<< Op("Assignment", 8, Id(8, "j"),
                                                             Op("Add", 8, Id(8, "j"), N(8, 1))) >>)),
                                              Op("Assignment", 9, Id(9, "s"),
                                                 Op("Add", 9, Id(9, "s"), Id(9, "j"))) >>)) >>,
                           Some(Block(<< Op("Assignment", 11, Id(11, "s"),
                                            Op("Add", 11, Id(11, "s"), N(11, 10))) >>))) >>)),
                     ReturnStatement(12, Id(12, "s")) >>) >>
      [] s.name = "arity" ->
            \* Add(a, b) called with s.a arguments, at least the one that the
            \* parser asks of a call: return Add(1, ..., s.a)
            << AddFn,
               Fn(2, "Test", << >>,
                  << ReturnStatement(3, Call(3, "Add", [i \in 1..s.a |-> N(3, i)])) >>) >>
      [] s.name = "literal_place" ->
            \* a number where an identifier is asked for: return 1(2) when s.a = 0,
            \* 1 = 2 and then return 1 when s.a = 1
            << Fn(0, "Test", << >>,
                  IF s.a = 0
                  THEN << ReturnStatement(1, Expression("FunctionCall", 1,
                                                        << N(1, 1), N(1, 2) >>)) >>
                  ELSE << Op("Assignment", 1, N(1, 1), N(1, 2)),
                          ReturnStatement(2, N(2, 1)) >>) >>
      [] s.name = "branch_value" ->
            \* x = <value> / if x / return 1 / return 2, the value s.a names: 1 < 2,
            \* 2 < 1, 1, Array(1), Print(1); when s.a = 5 the condition is the
            \* literal 1 itself
            << Fn(0, "Test", << >>,
                  << Op("Assignment", 1, Id(1, "x"),
                        CASE s.a = 0 -> Op("LessThan", 1, N(1, 1), N(1, 2))
                          [] s.a = 1 -> Op("LessThan", 1, N(1, 2), N(1, 1))
                          [] s.a = 3 -> Call(1, "Array", << N(1, 1) >>)
                          [] s.a = 4 -> Call(1, "Print", << N(1, 1) >>)
                          [] OTHER -> N(1, 1)),
                     IfStatement(
                        << Clause(2, IF s.a = 5 THEN N(2, 1) ELSE Id(2, "x"),
                                  Block(<< ReturnStatement(3, N(3, 1)) >>)) >>,
                        None),
                     ReturnStatement(4, N(4, 2)) >>) >>
      [] s.name = "assign_value" ->
            \* A = Array(2, 5) / i = 1 / x = p = e / return x == p, with p = e
            \* being i = 5 (s.a = 0), i = A[i] (1), A = A.length (2), A[1] = 7 (3)
            << Fn(0, "Test", << >>,
                  << Op("Assignment", 1, Id(1, "A"), Call(1, "Array", << N(1, 2), N(1, 5) >>)),
                     Op("Assignment", 2, Id(2, "i"), N(2, 1)),
                     Op("Assignment", 3, Id(3, "x"),
                        CASE s.a = 0 -> Op("Assignment", 3, Id(3, "i"), N(3, 5))
                          [] s.a = 1 -> Op("Assignment", 3, Id(3, "i"),
                                           Op("Indexing", 3, Id(3, "A"), Id(3, "i")))
                          [] s.a = 2 -> Op("Assignment", 3, Id(3, "A"),
                                           Op("MemberAccess", 3, Id(3, "A"), Id(3, "length")))
                          [] OTHER -> Op("Assignment", 3,
                                         Op("Indexing", 3, Id(3, "A"), N(3, 1)), N(3, 7))),
                     ReturnStatement(4,
                        Op("Equality", 4, Id(4, "x"),
                           CASE s.a \in {0, 1} -> Id(4, "i")
                             [] s.a = 2 -> Id(4, "A")
                             [] OTHER -> Op("Indexing", 4, Id(4, "A"), N(4, 1)))) >>) >>
      [] s.name = "ends_in_block" ->
            \* Test() / x = 0 / <an if, a while or a for as the last statement>
            << Fn(0, "Test", << >>,
                  << Op("Assignment", 1, Id(1, "x"), N(1, 0)),
                     CASE s.a \in {0, 1} ->
                            IfStatement(<< Clause(2, Op("LessThan", 2, Id(2, "x"), N(2, 1 - s.a)),
                                                  Block(<< Op("Assignment", 3, Id(3, "x"),
                                                              N(3, 1)) >>)) >>,
                                        None)
                       [] s.a = 2 ->
                            WhileLoop(2, Op("LessThan", 2, Id(2, "x"), N(2, 2)),
                               Block(<< Op("Assignment", 3, Id(3, "x"),
                                           Op("Add", 3, Id(3, "x"), N(3, 1))) >>))
                       [] OTHER ->
                            ForLoop(2, "k", N(2, 1), N(2, 2), FALSE,
                               Block(<< Op("Assignment", 3, Id(3, "x"),
                                           Op("Add", 3, Id(3, "x"), Id(3, "k"))) >>)) >>) >>
      [] s.name = "failing_step" ->
            \* Fail(A) / y = 1 / <a statement that fails> / return y
            \* Test() / x = Array(1, 2) / r = Fail(x) / return r
            << Fn(0, "Fail", << "A" >>,
                  << Op("Assignment", 1, Id(1, "y"), N(1, 1)),
                     CASE s.a = 0 -> Op("Assignment", 2, Id(2, "y"), Id(2, "z"))
                       [] s.a = 1 -> Op("Assignment", 2, Id(2, "y"),
                                        Call(2, "Missing", << N(2, 1) >>))
                       [] s.a = 2 -> Op("Assignment", 2, Id(2, "y"),
                                        Op("Add", 2, Id(2, "A"), N(2, 1)))
                       [] s.a = 3 -> Op("Assignment", 2,
                                        Op("Indexing", 2, Id(2, "A"), N(2, 3)), N(2, 1))
                       [] s.a = 4 -> Call(2, "AssertEqual", << Id(2, "y"), N(2, 2) >>)
                       [] s.a = 5 -> Op("Assignment", 2,
                                        Op("MemberAccess", 2, Id(2, "A"), Id(2, "length")),
                                        N(2, 5))
                       [] s.a = 6 -> Op("Assignment", 2, N(2, 1), N(2, 2))
                       [] OTHER -> IfStatement(<< Clause(2, Id(2, "A"),
                                                         Block(<< Op("Assignment", 3, Id(3, "y"),
                                                                     N(3, 2)) >>)) >>,
                                               None),
                     ReturnStatement(4, Id(4, "y")) >>),
               Fn(5, "Test", << >>,
                  << NewPair(6, "x"),
                     Op("Assignment", 7, Id(7, "r"), Call(7, "Fail", << Id(7, "x") >>)),
                     ReturnStatement(8, Id(8, "r")) >>) >>
      [] s.name = "for_bound" ->
            \* Test() / n = 2 / A = Array(2, 5) / A.heapsize = 2 / c = 0
            \*   for k = 1 to <n | A[1] | A.heapsize | n + 0>
            \*     c = c + 1 / <n | A[1] | A.heapsize | n> = 1
            \*   return c
            << Fn(0, "Test", << >>,
                  << Op("Assignment", 1, Id(1, "n"), N(1, 2)),
                     Op("Assignment", 2, Id(2, "A"), Call(2, "Array", << N(2, 2), N(2, 5) >>)),
                     Op("Assignment", 3, Op("MemberAccess", 3, Id(3, "A"), Id(3, "heapsize")),
                        N(3, 2)),
                     Op("Assignment", 4, Id(4, "c"), N(4, 0)),
                     ForLoop(5, "k", N(5, 1),
                        CASE s.a = 0 -> Id(5, "n")
                          [] s.a = 1 -> Op("Indexing", 5, Id(5, "A"), N(5, 1))
                          [] s.a = 2 -> Op("MemberAccess", 5, Id(5, "A"), Id(5, "heapsize"))
                          [] OTHER -> Op("Add", 5, Id(5, "n"), N(5, 0)),
                        FALSE,
                        Block(<< Op("Assignment", 6, Id(6, "c"),
                                    Op("Add", 6, Id(6, "c"), N(6, 1))),
                                 Op("Assignment", 7,
                                    CASE s.a = 1 -> Op("Indexing", 7, Id(7, "A"), N(7, 1))
                                      [] s.a = 2 -> Op("MemberAccess", 7, Id(7, "A"),
                                                       Id(7, "heapsize"))
                                      [] OTHER -> Id(7, "n"),
                                    N(7, 1)) >>)),
                     ReturnStatement(8, Id(8, "c")) >>) >>
      [] s.name = "chain_run" ->
            \* the tree that parse_document returns for the chain text of the
            \* operators s.a and s.b
            ChainTree(s.a, s.b)
      [] OTHER ->
            \* "last_expression": a body whose last statement is x = a
            << Fn(0, "Test", << >>, << Op("Assignment", 1, Id(1, "x"), N(1, s.a)) >>) >>

Source(name, a, b, c) == [name |-> name, a |-> a, b |-> b, c |-> c]

Sources ==
    {Source(n, a, b, 0) : n \in {"add_call", "if_return", "if_return_bool"},
                          a \in 0..1, b \in 0..1}
    \cup {Source(n, a, b, 0) : n \in {"and_undefined", "or_undefined", "and_call", "or_call"},
                               a \in 0..1, b \in 0..1}
    \cup {Source(n, a, b, c) : n \in {"and_value", "or_value"},
                               a \in 0..1, b \in 0..1, c \in 0..3}
    \cup {Source(n, a, b, c) : n \in {"for_trace", "for_sum"},
                               a \in 0..MaxBound, b \in 0..MaxBound, c \in 0..1}
    \cup {Source("for_sum", 1, 5, 0), Source("array_sum", 0, 0, 0)}
    \cup {Source("alias_index", a, b, 0) : a \in 0..MaxBound, b \in 1..2}
    \cup {Source("alias_index", 9, 1, 0)}
    \cup {Source(n, a, 0, 0) : n \in {"alias_heapsize", "alias_call", "nested_call",
                                      "while_count", "last_expression"},
                               a \in 0..MaxBound}
    \cup {Source("index_var", a, b, 0) : a \in 0..MaxIndexHalves, b \in 0..MaxIndexHalves}
    \cup {Source("index_direct", a, 0, 0) : a \in 0..MaxIndexHalves}
    \cup {Source(n, 0, 0, 0) : n \in {"false_and_undefined", "return_true", "return_false"}}
    \cup {Source(n, a, 0, 0) : n \in {"recursive", "while_first", "nested"}, a \in 0..MaxBound}
    \cup {Source("bare_statements", 0, 0, 0)}
    \cup {Source("arity", a, 0, 0) : a \in 1..MaxBound}
    \cup {Source("for_bound", a, 0, 0) : a \in 0..3}
    \cup {Source("failing_step", a, 0, 0) : a \in 0..7}
    \cup {Source("ends_in_block", a, 0, 0) : a \in 0..3}
    \cup {Source("literal_place", a, 0, 0) : a \in 0..1}
    \cup {Source("branch_value", a, 0, 0) : a \in 0..5}
    \cup {Source("assign_value", a, 0, 0) : a \in 0..3}
    \cup {Source("chain_run", pair[1], pair[2], 0) :
             pair \in {p \in ChainPairs : ChainLevel(p[1]) = 2}}

----------------------------------------------------------------------------
(* The source texts the tokenize and parse commands are run on: families of  *)
(* program texts with the numbers that shape them, and every text up to a   *)
(* length over a few characters.                                            *)

Spaces(n) == [i \in 1..n |-> " "]

\* the longest of the texts that are enumerated
MaxTextLen == 3

\* the most spaces before the else of the dangling texts and before the
\* statement after the inner body of the dedent texts
MaxElseIndent == 6

\* what the for_header texts hold between the bounds of the loop
ForHeaderTokens ==
    << << "t", "o", " " >>, << "u", "n", "t", "i", "l", " " >>, << >>, << ",", " " >> >>

\* the characters of the enumerated texts
TextCharacters == << "a", "1", " ", "\n", "\r", "/" >>

TextNames ==
    {"plain", "comment", "blank_end", "blank_middle", "indent", "blocks",
     "dangling", "member", "chain", "for_header", "empty_call", "dedent",
     "chars"}

IsText(s) == s.name \in TextNames

\* the text of a source; the text of length s.b and number s.a in the
\* enumeration holds at i the character that digit i of s.a names
Text(s) ==
    CASE s.name = "plain" ->
            \* a program of one function
            \* Test()
            << "T", "e", "s", "t", "(", ")", "\n" >> \o
            \*   x = 1.5
            << " ", " ", "x", " ", "=", " ", "1", ".", "5", "\n" >> \o
            \*   return x * 2
            << " ", " ", "r", "e", "t", "u", "r", "n", " ", "x", " ", "*", " ", "2", "\n" >>
      [] s.name = "comment" ->
            \* s.b = 1: a line that holds only a comment, after s.a spaces, stands
            \* between the two statements; s.b = 0: the same text without that line
            \* Test()
            << "T", "e", "s", "t", "(", ")", "\n" >> \o
            \*   x = 1
            << " ", " ", "x", " ", "=", " ", "1", "\n" >> \o
            \* <s.a spaces>// note
            (IF s.b = 1 THEN Spaces(s.a) \o << "/", "/", " ", "n", "o", "t", "e", "\n" >> ELSE << >>) \o
            \*   return x
            << " ", " ", "r", "e", "t", "u", "r", "n", " ", "x", "\n" >>
      [] s.name = "blank_end" ->
            \* the last line is s.a spaces; s.b = 1: a newline ends it
            \* Test()
            << "T", "e", "s", "t", "(", ")", "\n" >> \o
            \*   return 1
            << " ", " ", "r", "e", "t", "u", "r", "n", " ", "1", "\n" >> \o
            \* <s.a spaces>
            Spaces(s.a) \o (IF s.b = 1 THEN << "\n" >> ELSE << >>)
      [] s.name = "blank_middle" ->
            \* a line of s.a spaces, and a carriage return when s.b = 1, stands
            \* between the two statements
            \* Test()
            << "T", "e", "s", "t", "(", ")", "\n" >> \o
            \*   x = 1 // one
            << " ", " ", "x", " ", "=", " ", "1", " ", "/", "/", " ", "o", "n", "e", "\n" >> \o
            \* <s.a spaces>
            Spaces(s.a) \o (IF s.b = 1 THEN << "\r" >> ELSE << >>) \o << "\n" >> \o
            \*   return x
            << " ", " ", "r", "e", "t", "u", "r", "n", " ", "x" >>
      [] s.name = "indent" ->
            \* the statement after the inner block stands after s.a spaces
            \* Test()
            << "T", "e", "s", "t", "(", ")", "\n" >> \o
            \*   if 1 < 2
            << " ", " ", "i", "f", " ", "1", " ", "<", " ", "2", "\n" >> \o
            \*     x = 1
            << " ", " ", " ", " ", "x", " ", "=", " ", "1", "\n" >> \o
            \* <s.a spaces>y = 2
            Spaces(s.a) \o << "y", " ", "=", " ", "2", "\n" >> \o
            \*   return 1
            << " ", " ", "r", "e", "t", "u", "r", "n", " ", "1", "\n" >>
      [] s.name = "blocks" ->
            \* blocks inside one another, ended by shorter Indentations, by an
            \* identifier and by the end of the file
            \* Down(n)
            << "D", "o", "w", "n", "(", "n", ")", "\n" >> \o
            \*   if n < 1
            << " ", " ", "i", "f", " ", "n", " ", "<", " ", "1", "\n" >> \o
            \*     return 0
            << " ", " ", " ", " ", "r", "e", "t", "u", "r", "n", " ", "0", "\n" >> \o
            \*   elseif n < 2
            << " ", " ", "e", "l", "s", "e", "i", "f", " ", "n", " ", "<", " ", "2", "\n" >> \o
            \*     return 1
            << " ", " ", " ", " ", "r", "e", "t", "u", "r", "n", " ", "1", "\n" >> \o
            \*   else
            << " ", " ", "e", "l", "s", "e", "\n" >> \o
            \*     while n > 0
            << " ", " ", " ", " ", "w", "h", "i", "l", "e", " ", "n", " ", ">", " ", "0", "\n" >> \o
            \*       for k = 1 to n
            << " ", " ", " ", " ", " ", " ", "f", "o", "r", " ", "k", " ", "=", " ", "1", " ", "t", "o", " ", "n", "\n" >> \o
            \*         n = n - 1
            << " ", " ", " ", " ", " ", " ", " ", " ", "n", " ", "=", " ", "n", " ", "-", " ", "1", "\n" >> \o
            \*     return n
            << " ", " ", " ", " ", "r", "e", "t", "u", "r", "n", " ", "n", "\n" >> \o
            \* Test()
            << "T", "e", "s", "t", "(", ")", "\n" >> \o
            \*   for k = 0 to 2
            << " ", " ", "f", "o", "r", " ", "k", " ", "=", " ", "0", " ", "t", "o", " ", "2", "\n" >> \o
            \*     if k == 1
            << " ", " ", " ", " ", "i", "f", " ", "k", " ", "=", "=", " ", "1", "\n" >> \o
            \*       x = k
            << " ", " ", " ", " ", " ", " ", "x", " ", "=", " ", "k", "\n" >> \o
            \*   return Down(2)
            << " ", " ", "r", "e", "t", "u", "r", "n", " ", "D", "o", "w", "n", "(", "2", ")" >>
      [] s.name = "dangling" ->
            \* an if inside the body of an if; s.a spaces stand before the else
            \* (s.b = 0) or the elseif (s.b = 1) that follows the inner body
            \* Test()
            << "T", "e", "s", "t", "(", ")", "\n" >> \o
            \*   if 1 < 2
            << " ", " ", "i", "f", " ", "1", " ", "<", " ", "2", "\n" >> \o
            \*     if 2 < 1
            << " ", " ", " ", " ", "i", "f", " ", "2", " ", "<", " ", "1", "\n" >> \o
            \*       x = 1
            << " ", " ", " ", " ", " ", " ", "x", " ", "=", " ", "1", "\n" >> \o
            \* <s.a spaces>else, or <s.a spaces>elseif 1 < 2
            Spaces(s.a) \o (IF s.b = 1 THEN << "e", "l", "s", "e", "i", "f", " ", "1", " ", "<", " ", "2", "\n" >> ELSE << "e", "l", "s", "e", "\n" >>) \o
            \* <s.a + 2 spaces>x = 2
            Spaces(s.a + 2) \o << "x", " ", "=", " ", "2", "\n" >> \o
            \*   return 1
            << " ", " ", "r", "e", "t", "u", "r", "n", " ", "1", "\n" >>
      [] s.name = "member" ->
            \* after the `.` comes an identifier (s.a = 0), a number (s.a = 1) or a
            \* parenthesized expression (s.a = 2)
            \* Test()
            << "T", "e", "s", "t", "(", ")", "\n" >> \o
            \*   A = Array(1)
            << " ", " ", "A", " ", "=", " ", "A", "r", "r", "a", "y", "(", "1", ")", "\n" >> \o
            \* return A.length, return A.1, or return A.(1)
            << " ", " ", "r", "e", "t", "u", "r", "n", " ", "A", "." >> \o (CASE s.a = 0 -> << "l", "e", "n", "g", "t", "h" >> [] s.a = 1 -> << "1" >> [] OTHER -> << "(", "1", ")" >>) \o << "\n" >>
      [] s.name = "chain" ->
            \* a chain of the operators s.a and s.b, two of one level
            ChainText(s.a, s.b)
      [] s.name = "for_header" ->
            \* a for loop with, where `to` belongs, the token that s.a names: to,
            \* until, the second bound itself, a comma; s.b = 1: `down` comes before it
            \* Test()
            << "T", "e", "s", "t", "(", ")", "\n" >> \o
            \*   s = 0
            << " ", " ", "s", " ", "=", " ", "0", "\n" >> \o
            \* for k = 1 [down] <token> 3
            << " ", " ", "f", "o", "r", " ", "k", " ", "=", " ", "1", " " >> \o (IF s.b = 1 THEN << "d", "o", "w", "n", " " >> ELSE << >>) \o ForHeaderTokens[s.a + 1] \o << "3", "\n" >> \o
            \*     s = s + k
            << " ", " ", " ", " ", "s", " ", "=", " ", "s", " ", "+", " ", "k", "\n" >> \o
            \*   return s
            << " ", " ", "r", "e", "t", "u", "r", "n", " ", "s", "\n" >>
      [] s.name = "empty_call" ->
            \* a call with no argument (s.a = 0) or with one (s.a = 1)
            \* Test()
            << "T", "e", "s", "t", "(", ")", "\n" >> \o
            \* return Zero() or return Zero(1)
            << " ", " ", "r", "e", "t", "u", "r", "n", " ", "Z", "e", "r", "o", "(" >> \o (IF s.a = 0 THEN << >> ELSE << "1" >>) \o << ")", "\n" >>
      [] s.name = "dedent" ->
            \* an if inside the body of an if; s.a spaces stand before the statement
            \* that follows the inner body
            \* Test()
            << "T", "e", "s", "t", "(", ")", "\n" >> \o
            \*   if 1 < 2
            << " ", " ", "i", "f", " ", "1", " ", "<", " ", "2", "\n" >> \o
            \*     if 2 < 1
            << " ", " ", " ", " ", "i", "f", " ", "2", " ", "<", " ", "1", "\n" >> \o
            \*       x = 1
            << " ", " ", " ", " ", " ", " ", "x", " ", "=", " ", "1", "\n" >> \o
            \* <s.a spaces>y = 2
            Spaces(s.a) \o << "y", " ", "=", " ", "2", "\n" >> \o
            \*   return 1
            << " ", " ", "r", "e", "t", "u", "r", "n", " ", "1", "\n" >>
      [] s.name = "chars" ->
            [i \in 1..s.b |->
                TextCharacters[((s.a \div Power(Len(TextCharacters), i - 1))
                                % Len(TextCharacters)) + 1]]
      [] OTHER -> << >>

TextSources ==
    {Source("plain", 0, 0, 0), Source("blocks", 0, 0, 0), Source("comment", 0, 0, 0)}
    \cup {Source("comment", a, 1, 0) : a \in 0..3}
    \cup {Source(n, a, b, 0) : n \in {"blank_end", "blank_middle"}, a \in 0..3, b \in 0..1}
    \cup {Source("indent", a, 0, 0) : a \in 0..5}
    \cup {Source("dangling", a, b, 0) : a \in 0..MaxElseIndent, b \in 0..1}
    \cup {Source("member", a, 0, 0) : a \in 0..2}
    \cup {Source("chain", pair[1], pair[2], 0) : pair \in ChainPairs}
    \cup {Source("for_header", a, b, 0) : a \in 0..(Len(ForHeaderTokens) - 1), b \in 0..1}
    \cup {Source("empty_call", a, 0, 0) : a \in 0..1}
    \cup {Source("dedent", a, 0, 0) : a \in 1..MaxElseIndent}
    \cup UNION {{Source("chars", a, b, 0) : a \in 0..(Power(Len(TextCharacters), b) - 1)} :
                  b \in 0..MaxTextLen}
----------------------------------------------------------------------------
(* main.rs: the vm-run command and the interpret command on one source     *)
(* given as its parse trees, the tokenize command and the parse command on  *)
(* one source given as its text.                                            *)

VARIABLES
    source,      \* the program the commands are run on
    functions,   \* Runtime.functions, empty until the vm-run command loads it
    stack,       \* Runtime.stack
    heap,        \* the array cells the VM's values point to
    vm,          \* "idle", "running", or how the vm-run command ended
    flag,        \* the bool of the last Ok that Runtime::single_step returned
    host,        \* where the driving loop of vm-run stands: "clear" or "step"
    interp,      \* the result of the interpret command, None until it has run
    run,         \* how many times start_execution("Test") has started a run
    steps,       \* the clears and steps of the current run so far
    first_run,   \* the runtime after each clear and step of the first run
    tokens,      \* the TokenStream of the tokenize command
    yielded,     \* the tokens that TokenStream::next has returned so far
    extra,       \* the requests that TokenStream::next has answered with None
    parsed       \* the result of the parse command, None until it has run

front == << tokens, yielded, extra, parsed >>

vars == << source, functions, stack, heap, vm, flag, host, interp, run, steps, first_run,
           tokens, yielded, extra, parsed >>

\* the requests made to a stream after it has ended
MaxRequestsAfterEnd == 2

\* the runtime as a second run is compared with it
Record(frames, cells) == [stack |-> frames, heap |-> cells]

Init ==
    /\ source \in Sources \cup TextSources
    /\ tokens = TokenStream_new(LocationTrack_new(Text(source)))
    /\ yielded = << >>
    /\ extra = 0
    /\ parsed = None
    /\ functions = [x \in {} |-> VMFunction_new("", 0, << >>)]
    /\ stack = << >>
    /\ heap = << >>
    /\ vm = "idle"
    /\ flag = FALSE
    /\ host = "idle"
    /\ interp = None
    /\ run = 0
    /\ steps = 0
    /\ first_run = << >>

\* parse_tree.into_iter().map(compile_function).collect::<Result<Vec<_>, _>>()
RECURSIVE compile_all(_)
compile_all(parse_tree) ==
    IF Len(parse_tree) = 0 THEN [st |-> "ok", fns |-> << >>]
    ELSE Let(compile_function(Head(parse_tree)), LAMBDA first :
         IF first.st # "ok" THEN [st |-> first.st, fns |-> << >>]
         ELSE Let(compile_all(Tail(parse_tree)), LAMBDA rest :
              [st |-> rest.st, fns |-> << first.fn >> \o rest.fns]))

\* main.rs, VMRun: lower every function, load them, start_execution("Test")
VMRun ==
    /\ ~ IsText(source)
    /\ vm = "idle"
    /\ \E compiled \in {compile_all(Tree(source))} :
          IF compiled.st # "ok"
          THEN /\ vm' = (IF compiled.st = "err" THEN "lowering_error" ELSE "panic")
               /\ UNCHANGED << functions, stack, host, run, first_run >>
          ELSE \E started \in {start_execution(Runtime_load(compiled.fns), stack, "Test")} :
                  /\ functions' = Runtime_load(compiled.fns)
                  /\ stack' = started.stack
                  /\ vm' = (IF started.st = "ok" THEN "running" ELSE "error")
                  /\ host' = (IF started.st = "ok" THEN "clear" ELSE host)
                  /\ run' = (IF started.st = "ok" THEN 1 ELSE run)
                  /\ first_run' = (IF started.st = "ok"
                               THEN << Record(started.stack, heap) >> ELSE first_run)
    /\ UNCHANGED << source, heap, flag, interp, steps >>
    /\ UNCHANGED front

\* main.rs, VMRun: runtime.clear() before the steps of a visible step
Clear ==
    /\ vm = "running"
    /\ host = "clear"
    /\ stack' = Runtime_clear(stack)
    /\ host' = "step"
    /\ steps' = steps + 1
    /\ first_run' = (IF run = 1 THEN Append(first_run, Record(Runtime_clear(stack), heap)) ELSE first_run)
    /\ UNCHANGED << source, functions, heap, vm, flag, interp, run >>
    /\ UNCHANGED front

\* main.rs, VMRun: one runtime.single_step(); an Err ends the command, an
\* Ok(true) ends the visible step.  A caller of the library may go on
\* stepping a runtime that is done.
Step ==
    /\ vm = "running"
    /\ host = "step"
    /\ \E r \in {Runtime_single_step(functions, stack, heap)} :
          /\ stack' = r.stack
          /\ heap' = r.heap
          /\ vm' = (CASE r.st = "ok" -> "running" [] r.st = "err" -> "error" [] OTHER -> "panic")
          /\ flag' = (IF r.st = "ok" THEN r.flag ELSE flag)
          /\ host' = (IF r.st = "ok" /\ r.flag /\ ~ is_done(r.stack) THEN "clear" ELSE "step")
          /\ steps' = (IF is_done(stack) THEN steps ELSE steps + 1)
          /\ first_run' = (IF run = 1 /\ ~ is_done(stack)
                       THEN Append(first_run, Record(r.stack, r.heap)) ELSE first_run)
    /\ UNCHANGED << source, functions, interp, run >>
    /\ UNCHANGED front

\* main.rs, Execute: RunTime::inner_execute_function(executor, "Test", vec![])
Execute ==
    /\ ~ IsText(source)
    /\ interp = None
    /\ interp' = Some(inner_execute_function(RunTime_new(Tree(source)), "Test", << >>, << >>))
    /\ UNCHANGED << source, functions, stack, heap, vm, flag, host, run, steps, first_run >>
    /\ UNCHANGED front

\* Restart with the fault of a frame that starts with the variables the first
\* run ended with
Restart_leftover ==
    /\ vm = "running"
    /\ is_done(stack)
    /\ run = 1
    /\ \E started \in {start_execution(functions, stack, "Test")} :
          /\ started.st = "ok"
          /\ stack' = << [started.stack[1] EXCEPT
                            !.variables = first_run[Len(first_run) - 1].stack[1].variables] >>
    /\ heap' = << >>
    /\ run' = 2
    /\ steps' = 0
    /\ host' = "clear"
    /\ UNCHANGED << source, functions, vm, flag, interp, first_run >>
    /\ UNCHANGED front

\* a second Runtime::start_execution("Test") on the runtime of a run that is
\* done: the stack is empty, every frame and with it every array of the first
\* run has been dropped
Restart ==
    /\ vm = "running"
    /\ is_done(stack)
    /\ run = 1
    /\ \E started \in {start_execution(functions, stack, "Test")} :
          /\ started.st = "ok"
          /\ stack' = started.stack
    /\ heap' = << >>
    /\ run' = 2
    /\ steps' = 0
    /\ host' = "clear"
    /\ UNCHANGED << source, functions, vm, flag, interp, first_run >>
    /\ UNCHANGED front

\* main.rs, Tokenize: one TokenStream::next of `for token in tokens`, and the
\* requests a caller makes of the stream after it has returned None
NextToken ==
    /\ IsText(source)
    /\ ~ tokens.panicked
    /\ extra < MaxRequestsAfterEnd
    /\ \E taken \in {TokenStream_next(tokens)} :
          /\ tokens' = taken.stream
          /\ yielded' = (IF IsSome(taken.token) THEN Append(yielded, Unwrap(taken.token))
                         ELSE yielded)
          /\ extra' = (IF IsSome(taken.token) THEN extra ELSE extra + 1)
    /\ UNCHANGED << source, functions, stack, heap, vm, flag, host, interp, run, steps,
                    first_run, parsed >>

\* main.rs, Parse: parse_document on a new TokenStream of the text
Parse ==
    /\ IsText(source)
    /\ parsed = None
    /\ parsed' = Some(parse_document(
                          ParserContext_new(TokenStream_new(LocationTrack_new(Text(source))))))
    /\ UNCHANGED << source, functions, stack, heap, vm, flag, host, interp, run, steps,
                    first_run, tokens, yielded, extra >>

Next == VMRun \/ Clear \/ Step \/ Execute \/ Restart \/ NextToken \/ Parse

Spec == Init /\ [][Next]_vars

\* the driving loop of vm-run keeps clearing and stepping until the run ends,
\* and the for loop of tokenize keeps asking the stream for its next token
FairSpec == Spec /\ WF_vars(Clear) /\ WF_vars(Step) /\ WF_vars(NextToken)

----------------------------------------------------------------------------
(* What a run shows.  The VM has returned from Test when Test's frame, the  *)
(* bottom one, holds its return_value: the next step pops it.               *)

VMReturned == vm = "running" /\ Len(stack) = 1 /\ IsSome(stack[1].return_value)

VMResult == Unwrap(stack[1].return_value)

Interpreted == IsSome(interp)

InterpResult == Unwrap(interp)

InterpReturned == Interpreted /\ InterpResult.st = "ok"

\* the names ExecutionFrame::builtin_function_call serves itself
BuiltinNames == {"Print", "Array", "AssertEqual", "floor", "ceil"}

\* a step of the VM that returned Ok, seen as a transition
OkStep == vm = "running" /\ host = "step" /\ interp' = interp /\ vm' = "running"

TopInstruction == Unwrap(next_instruction(functions, Last(stack)))

\* the top frame is about to execute a Call of a user-defined function
AtUserCall ==
    /\ Len(stack) > 0
    /\ ~ IsSome(Last(stack).return_value)
    /\ IsSome(next_instruction(functions, Last(stack)))
    /\ TopInstruction.op = "FunctionCall"
    /\ TopInstruction.function.name \in DOMAIN functions \ BuiltinNames

\* the value of a call argument that is a variable or an immediate
ArgumentValue(frame, value) ==
    IF value.k = "Variable" THEN frame.variables[value.var.name] ELSE value.v

\* the reads the audit list gets when the arguments are evaluated once
RECURSIVE ArgumentReads(_)
ArgumentReads(arguments) ==
    IF Len(arguments) = 0 THEN << >>
    ELSE (IF Head(arguments).k = "Variable"
          THEN << UpdateData_variable(Head(arguments).var.name) >> ELSE << >>)
         \o ArgumentReads(Tail(arguments))

----------------------------------------------------------------------------
\* C1: for a program that does not use Print, the interpreter and the VM end
\* the same way: when the VM has returned from Test the interpreter returned
\* an equal value, and when the VM failed with a runtime error so did the
\* interpreter.
BackEndsAgree ==
    Interpreted =>
        /\ VMReturned => /\ InterpResult.st = "ok"
                         /\ value_eq(heap, VMResult, InterpResult.heap, InterpResult.v)
        /\ vm = "error" => InterpResult.st = "err"

\* C2: a Call of a user-defined function with no incoming returned value
\* evaluates the arguments once, pushes exactly one frame holding them and
\* leaves the caller on the Call; the step after the callee has returned only
\* stores the returned value into dest, empties the incoming slot and moves
\* the caller one instruction on: no argument is read again, no frame pushed.
CallSuspendsAndResumes ==
    [][ /\ (OkStep /\ AtUserCall /\ ~ IsSome(Last(stack).passed_return)) =>
              LET caller == Last(stack)
                  call == TopInstruction
                  callee == functions[call.function.name]
              IN  /\ Len(stack') = Len(stack) + 1
                  /\ Pop(Pop(stack')) = Pop(stack)
                  /\ stack'[Len(stack)] =
                        [caller EXCEPT !.last_read = @ \o ArgumentReads(call.arguments)]
                  /\ Last(stack').function = callee.name
                  /\ Last(stack').line = 0
                  /\ Last(stack').variables =
                        bind_arguments(EmptyMap, callee.arguments,
                            [i \in 1..Len(call.arguments) |->
                                ArgumentValue(caller, call.arguments[i])])
                  /\ heap' = heap
        /\ (OkStep /\ Len(stack) >= 2 /\ IsSome(Last(stack).return_value)) =>
              LET caller == stack[Len(stack) - 1]
                  call == Unwrap(next_instruction(functions, caller))
              IN  /\ call.op = "FunctionCall"
                  /\ Len(stack') = Len(stack) - 1
                  /\ Pop(stack') = Pop(Pop(stack))
                  /\ Last(stack') =
                        [caller EXCEPT
                            !.variables = (call.dest.name :> Unwrap(Last(stack).return_value)) @@ @,
                            !.last_updated = Append(@, UpdateData_variable(call.dest.name)),
                            !.passed_return = None,
                            !.line = @ + 1,
                            !.last_line = Some(call.line)]
                  /\ heap' = heap
      ]_vars

\* C2's case: Add(x, y) has returned into Test, which stands after its Call
\* with the sum in the Call's dest
CallResumed ==
    /\ source = Source("add_call", 1, 1, 0)
    /\ Len(stack) = 1
    /\ stack[1].line = 3
    /\ "temp$0" \in DOMAIN stack[1].variables
    /\ stack[1].variables["temp$0"] = Num(2)
    /\ stack[1].last_read = << UpdateData_variable("x"), UpdateData_variable("y") >>

\* C3: a Return(v) step sets the top frame's return_value to the value of v
\* and changes neither the depth of the stack nor the frame's cursor; the step
\* after it pops the frame, and the frame below, when there is one, receives
\* the popped value as the value returned to its Call.
ReturnThenPop ==
    [][ /\ (OkStep /\ Len(stack) > 0 /\ ~ IsSome(Last(stack).return_value)
               /\ IsSome(next_instruction(functions, Last(stack)))
               /\ TopInstruction.op = "Return") =>
              /\ Len(stack') = Len(stack)
              /\ Pop(stack') = Pop(stack)
              /\ Last(stack').line = Last(stack).line
              /\ Last(stack').variables = Last(stack).variables
              /\ Last(stack').return_value =
                    Some(load_value(Last(stack), heap, TopInstruction.value, TRUE).v)
        /\ (OkStep /\ Len(stack) > 0 /\ IsSome(Last(stack).return_value)) =>
              /\ Len(stack') = Len(stack) - 1
              /\ Len(stack) >= 2 =>
                    LET caller == stack[Len(stack) - 1]
                        dest == Unwrap(next_instruction(functions, caller)).dest.name
                    IN  /\ ~ IsSome(caller.passed_return)
                        /\ dest \in DOMAIN Last(stack').variables
                        /\ Last(stack').variables[dest] = Unwrap(Last(stack).return_value)
                        /\ ~ IsSome(Last(stack').return_value)
      ]_vars

\* C3's case: Add has executed its Return: its frame, still on the stack above
\* Test's and still on the Return, holds the sum
ReturnValueSet ==
    /\ source = Source("add_call", 1, 1, 0)
    /\ Len(stack) = 2
    /\ stack[2].function = "Add"
    /\ stack[2].line = 1
    /\ stack[2].return_value = Some(Num(2))
    /\ ~ IsSome(stack[1].passed_return)

\* neither a lowering error, nor a runtime error, nor a panic has ended vm-run
VMSound == vm \in {"idle", "running"}

\* both back ends end Test with the value v, a Number, a Boolean or None
BothReturn(v) ==
    /\ VMSound
    /\ VMReturned => VMResult = v
    /\ Interpreted => (InterpResult.st = "ok" /\ InterpResult.v = v)

\* both back ends end Test with a runtime error
BothFail ==
    /\ vm \in {"idle", "running", "error"}
    /\ ~ VMReturned
    /\ Interpreted => InterpResult.st = "err"

\* C4: an array is shared by its aliases: an element or the heapsize written
\* through one alias, in the frame that made the array or in the frame of a
\* function it was passed to, is what a later read through another alias
\* yields, in both back ends.
ArraysShared ==
    /\ source.name \in {"alias_index", "alias_heapsize"} => BothReturn(Num(source.a))
    /\ source.name = "alias_call" => BothReturn(Num(source.a + source.a))

\* C4's case: x = Array(1, 2); y = x; y[1] = 9; return x[1] has returned 9
AliasWriteRead ==
    /\ source = Source("alias_index", 9, 1, 0)
    /\ VMReturned
    /\ VMResult = Num(9)
    /\ InterpReturned
    /\ InterpResult.v = Num(9)

\* reading index k, counted in halves, of the array of n elements 10, 20, ..
IndexRead(n, halves) ==
    IF halves % 2 = 0 /\ halves \div 2 \in 1..n
    THEN BothReturn(Num(10 * (halves \div 2)))
    ELSE BothFail

\* C5: indexing is 1-based in both back ends, for an array held in a variable
\* and for one that is the direct result of a call: index k yields the k-th
\* element when k is an integer in 1..n and is a runtime error when k is 0,
\* negative, fractional or above n.
IndexingIsOneBased ==
    /\ source.name = "index_var" => IndexRead(2, source.a - source.b)
    /\ source.name = "index_direct" => IndexRead(1, source.a)

\* the left operand a < b of the logical programs decides the expression
Decisive == IF source.name \in {"and_undefined", "and_call", "and_value"}
            THEN ~ (source.a < source.b) ELSE source.a < source.b

\* C6: and/or short-circuit in both back ends: when the left operand decides,
\* a right operand that reads an undefined variable raises no error, and a
\* right operand that calls Mark makes no call: no frame of Mark is pushed
\* and the array Mark writes to stays as it was.
LogicalShortCircuits ==
    /\ (source.name = "and_undefined" /\ Decisive) => BothReturn(Boolean(FALSE))
    /\ (source.name = "or_undefined" /\ Decisive) => BothReturn(Boolean(TRUE))
    /\ (source.name \in {"and_call", "or_call"} /\ Decisive) =>
          /\ BothReturn(Num(0))
          /\ \A i \in 1..Len(stack) : stack[i].function # "Mark"

\* C6's case: (1 < 0) and u has returned false in both back ends, u undefined
ShortCircuited ==
    /\ source = Source("and_undefined", 1, 0, 0)
    /\ VMReturned
    /\ VMResult = Boolean(FALSE)
    /\ "u" \notin DOMAIN stack[1].variables
    /\ InterpReturned

\* C7: an evaluated operand of and/or must be a Boolean: with a left operand
\* that does not decide and a right operand that is a Number, an Array or
\* None, the expression is a runtime error in both back ends.
LogicalOperandsBoolean ==
    (source.name \in {"and_value", "or_value"} /\ ~ Decisive /\ source.c \in 0..2) => BothFail

\* C8: a return inside an if, elseif or else clause ends the function with
\* its value in both back ends: `if a < b / return True / else / return False`
\* yields the Boolean a < b, and with numbers returned from the three clauses
\* the statements after the if, x = 9 and return 4, are not executed.
ReturnInsideIf ==
    /\ source.name = "if_return_bool" => BothReturn(Boolean(source.a < source.b))
    /\ source.name = "if_return" =>
          /\ BothReturn(CASE source.a < source.b -> Num(1)
                          [] source.a = source.b -> Num(2)
                          [] OTHER -> Num(3))
          /\ \A i \in 1..Len(stack) :
                "x" \in DOMAIN stack[i].variables => stack[i].variables["x"] = Num(0)

\* C9: True and False evaluate to Boolean(true) and Boolean(false) in both
\* back ends with no variable of that name assigned: no undefined-variable
\* error.
BooleanLiterals ==
    /\ source.name = "return_true" => BothReturn(Boolean(TRUE))
    /\ source.name = "return_false" => BothReturn(Boolean(FALSE))

\* the values of i in the body of the loop, in order
ForValues(a, b, reverse) ==
    IF reverse THEN [i \in 1..(IF a >= b THEN a - b + 1 ELSE 0) |-> a - i + 1]
    ELSE [i \in 1..(IF b >= a THEN b - a + 1 ELSE 0) |-> a + i - 1]

RECURSIVE Sum(_)
Sum(q) == IF Len(q) = 0 THEN 0 ELSE Head(q) + Sum(Tail(q))

\* the array for_trace returns when its body ran with these values of k
Traced(cell, values) ==
    /\ cell.heapsize = Num(Len(values))
    /\ Len(cell.elements) = MaxBound + 1
    /\ \A i \in 1..Len(cell.elements) :
          cell.elements[i] = IF i <= Len(values) THEN Num(values[i]) ELSE Num(0)

ForPrograms == {"for_trace", "for_sum"}

ForLoopResults ==
    /\ source.name \in ForPrograms => VMSound
    /\ source.name = "for_sum" =>
          BothReturn(Num(Sum(ForValues(source.a, source.b, source.c = 1))))
    /\ source.name = "for_trace" =>
          /\ VMReturned =>
                /\ VMResult.tag = "Array"
                /\ Traced(heap[VMResult.val], ForValues(source.a, source.b, source.c = 1))
          /\ Interpreted =>
                /\ InterpResult.st = "ok"
                /\ InterpResult.v.tag = "Array"
                /\ Traced(InterpResult.heap[InterpResult.v.val],
                          ForValues(source.a, source.b, source.c = 1))

\* C10: `for k = a to b` runs its body with k = a, a+1, .., b, max(0, b-a+1)
\* times, and `for k = a down to b` with k = a, a-1, .., b, max(0, a-b+1)
\* times: the body's record of k (for_trace) and the sum of k (for_sum) are
\* those of exactly these values, in both back ends, and the loop ends: the
\* interpreter returns, and the VM, once started, is led to Test's return.
ForLoopRuns ==
    /\ []ForLoopResults
    /\ (source.name \in ForPrograms /\ vm = "running" /\ ~ is_done(stack)) ~> VMReturned

\* C10's case: for k = 1 to 5 summing k has returned 15 in both back ends
SummedToFifteen ==
    /\ source = Source("for_sum", 1, 5, 0)
    /\ VMReturned
    /\ VMResult = Num(15)
    /\ InterpReturned
    /\ InterpResult.v = Num(15)

----------------------------------------------------------------------------
\* what the next Runtime::single_step makes of the runtime as it stands
NextRun == Runtime_single_step(functions, stack, heap)

\* the top frame has not returned: the next step executes its instruction
TopRunning ==
    /\ Len(stack) > 0
    /\ ~ IsSome(Last(stack).return_value)
    /\ IsSome(next_instruction(functions, Last(stack)))

\* a step that raises no error on a top frame that has not returned does not
\* leave the runtime as it was
StepChanges ==
    (vm = "running" /\ TopRunning /\ NextRun.st = "ok") =>
        << NextRun.stack, NextRun.heap >> # << stack, heap >>

\* C11: VM progress: a step on a top frame with no return_value set that
\* raises no error either moves the cursor one on, or sets it to a target of
\* the Branch or the Goto it executed, or pushes a frame, or sets
\* return_value; and no such step leaves the whole runtime unchanged.
VMProgress ==
    /\ []StepChanges
    /\ [][ (OkStep /\ TopRunning) =>
              LET frame == Last(stack)
                  instruction == TopInstruction
              IN  \/ /\ Len(stack') = Len(stack) + 1
                     /\ stack'[Len(stack)].line = frame.line
                  \/ /\ Len(stack') = Len(stack)
                     /\ \/ Last(stack').line = frame.line + 1
                        \/ /\ instruction.op = "Branch"
                           /\ Last(stack').line \in
                                 {instruction.true_branch, instruction.false_branch}
                        \/ /\ instruction.op = "Goto"
                           /\ Last(stack').line = instruction.branch
                        \/ /\ IsSome(Last(stack').return_value)
                           /\ Last(stack').line = frame.line
         ]_vars

\* C11's case: the Goto of `for k = 1 to 5` has set the cursor back to the
\* comparison, after the first pass through the body
JumpedBack ==
    /\ source = Source("for_sum", 1, 5, 0)
    /\ Len(stack) = 1
    /\ stack[1].line = 2
    /\ "k" \in DOMAIN stack[1].variables
    /\ stack[1].variables["k"] = Num(2)

----------------------------------------------------------------------------
\* the source line of the instruction the top frame of a stack is about to
\* execute; None when there is no frame or the cursor is past the end
TopLine(frames) ==
    IF Len(frames) = 0 THEN None ELSE next_line(functions, Last(frames))

\* C12: Runtime::single_step returns true exactly when the source line
\* changed during the step: the line the top frame is about to execute after
\* the step differs from the one before it; also for a step that pushes a
\* frame, pops a frame, or runs on an empty stack.
FlagIsLineChange ==
    (vm = "running" /\ NextRun.st = "ok") =>
        (NextRun.flag <=> TopLine(NextRun.stack) # TopLine(stack))

----------------------------------------------------------------------------
----------------------------------------------------------------------------
\* the source lines of the statements of a block, those of nested blocks
\* included: the line of a statement is the line of its first token
RECURSIVE StatementLines(_)
StatementLines(node) ==
    CASE node.kind = "Block" ->
            UNION {StatementLines(node.statements[i]) : i \in 1..Len(node.statements)}
      [] node.kind = "IfStatement" ->
            UNION {{node.ifs[i].line} \cup StatementLines(node.ifs[i].block) :
                   i \in 1..Len(node.ifs)}
            \cup (IF IsSome(node.else_block)
                  THEN StatementLines(Unwrap(node.else_block)) ELSE {})
      [] node.kind \in {"ForLoop", "WhileLoop"} ->
            {node.line} \cup StatementLines(node.block)
      [] OTHER -> {node.line}

\* the associated lines of the instructions of a lowered function
InstructionLines(fn) == {fn.instructions[i].line : i \in 1..Len(fn.instructions)}

\* C14: once the functions of the source have been lowered and loaded, the
\* line of every statement of every function body is the associated line of
\* at least one instruction of that function, and the last instruction of
\* the function is a Return.
EveryStatementLowered ==
    vm = "running" =>
        \A i \in 1..Len(Tree(source)) :
            LET parsetree == Tree(source)[i]
                fn == functions[parsetree.name]
            IN  /\ StatementLines(parsetree.block) \subseteq InstructionLines(fn)
                /\ Len(fn.instructions) > 0
                /\ fn.instructions[Len(fn.instructions)].op = "Return"

----------------------------------------------------------------------------
\* the targets of an instruction: both targets of a Branch, the one of a Goto
Targets(instruction) ==
    CASE instruction.op = "Branch" -> {instruction.true_branch, instruction.false_branch}
      [] instruction.op = "Goto" -> {instruction.branch}
      [] OTHER -> {}

\* C15: in every lowered function every target t of a Branch or a Goto
\* satisfies 0 <= t <= the number of instructions of the function, whatever
\* the nesting of if/elseif/else, while, for, and, or.
TargetsInRange ==
    vm = "running" =>
        \A n \in DOMAIN functions :
            \A i \in 1..Len(functions[n].instructions) :
                \A t \in Targets(functions[n].instructions[i]) :
                    0 <= t /\ t <= Len(functions[n].instructions)

\* C15's case: the function with a for loop that holds an if/elseif/else
\* with `or` and `and` conditions and a while loop has been lowered; its for
\* loop leaves to the instruction before the last two, and an `if` clause
\* skips to the end of the chain
NestedLowered ==
    /\ source = Source("nested", 3, 0, 0)
    /\ vm = "running"
    /\ LET instructions == functions["Test"].instructions
       IN  /\ \E i \in 1..Len(instructions) :
                 /\ instructions[i].op = "Branch"
                 /\ instructions[i].line = 2
                 /\ instructions[i].false_branch = Len(instructions) - 2
           /\ \E i, j \in 1..Len(instructions) :
                 /\ i < j
                 /\ instructions[i].op = "Goto" /\ instructions[i].line = 3
                 /\ instructions[j].op = "Goto" /\ instructions[j].line = 5
                 /\ instructions[i].branch = instructions[j].branch
                 /\ instructions[i].branch > j

----------------------------------------------------------------------------
TreeOf(n) == CHOOSE parsetree \in {Tree(source)[i] : i \in 1..Len(Tree(source))} :
                 parsetree.name = n

\* the Goto that closes a while loop which is the first statement of the
\* function named n: the loop starts at instruction 0
ClosesFirstWhile(n, instruction) ==
    /\ instruction.op = "Goto"
    /\ Head(TreeOf(n).block.statements).kind = "WhileLoop"
    /\ instruction.line = Head(TreeOf(n).block.statements).line

----------------------------------------------------------------------------
(* The token stream of a text.                                              *)

\* the last token the stream has yielded is EndOfFile
EndOfFileYielded ==
    Len(yielded) > 0 /\ yielded[Len(yielded)].kind = "EndOfFile"

\* no token but the last one yielded is EndOfFile
EndOfFileOnlyLast ==
    \A i \in 1..Len(yielded) : yielded[i].kind = "EndOfFile" => i = Len(yielded)

\* C17: for every text over the recognized alphabet the token stream yields
\* finitely many tokens: the stream comes to yield EndOfFile, no token that it
\* yields before is EndOfFile and none follows it, and every request made after
\* it (MaxRequestsAfterEnd of them are made) yields nothing; a request yields
\* nothing only after EndOfFile.
StreamEndsWithOneEndOfFile ==
    /\ [](IsText(source) =>
            /\ ~ tokens.panicked
            /\ EndOfFileOnlyLast
            /\ (extra > 0 => EndOfFileYielded))
    /\ (IsText(source) ~> (EndOfFileYielded /\ extra = MaxRequestsAfterEnd))

\* C17's case: a text of several tokens has been read to its end: EndOfFile
\* came after an Indentation and other tokens, and the requests made since
\* have yielded nothing
StreamRequestedAfterEnd ==
    /\ IsText(source)
    /\ Len(yielded) > 3
    /\ \E i \in 1..Len(yielded) : yielded[i].kind = "Indentation"
    /\ EndOfFileYielded
    /\ extra = MaxRequestsAfterEnd

\* the characters of line n of a text, the lines counted from 0 and the
\* newlines left out
LineCharacters(text, n) ==
    {text[p] : p \in {q \in 1..Len(text) :
                         /\ text[q] # "\n"
                         /\ Cardinality({k \in 1..(q - 1) : text[k] = "\n"}) = n}}

\* a line of spaces and carriage returns only
BlankLine(text, n) == LineCharacters(text, n) \subseteq {" ", "\r"}

\* the line of a text that the character of index `index` stands on
LineOfIndex(text, index) == Cardinality({k \in 1..index : text[k] = "\n"})

\* C18: no Indentation token comes from a line that consists only of spaces
\* and carriage returns, the last line of a text that does not end with a
\* newline included: every Indentation token that the stream yields starts a
\* line, and that line has a non-blank character.
IndentationOnlyBeforeNonBlank ==
    IsText(source) =>
        \A i \in 1..Len(yielded) :
            yielded[i].kind = "Indentation" =>
                /\ Text(source)[yielded[i].start] = "\n"
                /\ ~ BlankLine(Text(source), LineOfIndex(Text(source), yielded[i].start))

----------------------------------------------------------------------------
(* A text and the same text without one of its lines.                       *)

\* main.rs, Tokenize: the tokens that `for token in tokens` goes through
RECURSIVE collect(_)
collect(stream) ==
    (CHOOSE it \in {
        IF IsSome(taken.token) THEN << Unwrap(taken.token) >> \o collect(taken.stream)
        ELSE << >>
     : taken \in {TokenStream_next(stream)}} : TRUE)

\* the tokens without their places in the text: the variant and the text
TokenTexts(stream_tokens) ==
    [i \in 1..Len(stream_tokens) |-> << stream_tokens[i].kind, stream_tokens[i].chars >>]

\* a parse tree without the lines of its tokens
RECURSIVE EraseLines(_)
EraseLines(node) ==
    CASE node.kind = "Function" ->
            [node EXCEPT !.line = 0, !.block = EraseLines(node.block)]
      [] node.kind = "Block" ->
            [node EXCEPT !.statements =
                [i \in 1..Len(node.statements) |-> EraseLines(node.statements[i])]]
      [] node.kind = "ReturnStatement" ->
            [node EXCEPT !.line = 0,
                         !.expression = Some(EraseLines(Unwrap(node.expression)))]
      [] node.kind = "IfStatement" ->
            [node EXCEPT !.ifs =
                [i \in 1..Len(node.ifs) |->
                    Clause(0, EraseLines(node.ifs[i].condition),
                           EraseLines(node.ifs[i].block))],
                         !.else_block =
                IF IsSome(node.else_block)
                THEN Some(EraseLines(Unwrap(node.else_block))) ELSE None]
      [] node.kind = "ForLoop" ->
            [node EXCEPT !.line = 0, !.bound0 = EraseLines(node.bound0),
                         !.bound1 = EraseLines(node.bound1),
                         !.block = EraseLines(node.block)]
      [] node.kind = "WhileLoop" ->
            [node EXCEPT !.line = 0, !.condition = EraseLines(node.condition),
                         !.block = EraseLines(node.block)]
      [] node.kind = "Expression" ->
            [node EXCEPT !.line = 0,
                         !.children =
                [i \in 1..Len(node.children) |-> EraseLines(node.children[i])]]
      [] OTHER -> [node EXCEPT !.line = 0]

\* what a parse comes to, the lines left out: Ok or Err, and the tree
Outcome(result) ==
    [st |-> result.st,
     tree |-> [i \in 1..Len(result.tree) |-> EraseLines(result.tree[i])]]

\* the text of the "comment" family without the comment line
WithoutComment == Text(Source("comment", 0, 0, 0))

\* C19: a line that holds only a comment, after leading spaces or none,
\* contributes no token: the text with such a line between the two statements
\* of a block yields the tokens of the text without the line, and parses to
\* the same outcome.
CommentLineYieldsNothing ==
    (source.name = "comment" /\ source.b = 1) =>
        /\ EndOfFileYielded =>
               TokenTexts(yielded)
                   = TokenTexts(collect(TokenStream_new(LocationTrack_new(WithoutComment))))
        /\ IsSome(parsed) =>
               Outcome(Unwrap(parsed))
                   = Outcome(parse_document(ParserContext_new(
                                 TokenStream_new(LocationTrack_new(WithoutComment)))))

----------------------------------------------------------------------------
\* C20: block parsing keeps the indentation stack balanced: every block that
\* parse_block has returned started on an Indentation strictly longer than
\* the level current before it, and the current level and the stack of
\* previous levels are after the block exactly what they were before it,
\* whatever blocks were parsed inside it.
BlocksBalanced ==
    IsSome(parsed) =>
        \A i \in 1..Len(Unwrap(parsed).blocks) :
            LET block == Unwrap(parsed).blocks[i]
            IN  /\ block.indentation > block.before.current_indent
                /\ block.after = block.before

\* C20's case: a text has been parsed in which a block inside two others
\* ended on a shorter Indentation, and a block ended on a token that is not an
\* Indentation
NestedBlocksParsed ==
    /\ IsSome(parsed)
    /\ \E i \in 1..Len(Unwrap(parsed).blocks) :
           LET block == Unwrap(parsed).blocks[i]
           IN  /\ Len(block.before.indentation_stack) >= 2
               /\ IsSome(block.next)
               /\ Unwrap(block.next).kind = "Indentation"
               /\ Len(Unwrap(block.next).chars) < block.indentation
    /\ \E i \in 1..Len(Unwrap(parsed).blocks) :
           LET block == Unwrap(parsed).blocks[i]
           IN  /\ IsSome(block.next)
               /\ Unwrap(block.next).kind # "Indentation"

----------------------------------------------------------------------------
(* The if chains of a parse tree.                                           *)

\* the first statement of the first function of the tree of a parse
OuterIf(result) == result.tree[1].block.statements[1]

\* the first statement of the body of the first clause of an if statement
InnerIf(statement) == statement.ifs[1].block.statements[1]

\* an elseif or an else has been attached to the chain of the if statement
HasLaterMember(statement) ==
    /\ statement.kind = "IfStatement"
    /\ Len(statement.ifs) > 1 \/ IsSome(statement.else_block)

\* the spaces that line n of a text starts with
LineIndent(text, n) ==
    Cardinality({p \in 1..Len(text) :
                    /\ LineOfIndex(text, p - 1) = n
                    /\ \A q \in 1..p : LineOfIndex(text, q - 1) = n => text[q] = " "})

\* in the dangling texts the outer if is on line 1, the inner if on line 2 and
\* the else or elseif on line 4
OuterIndent == LineIndent(Text(source), 1)

InnerIndent == LineIndent(Text(source), 2)

ElseIndent == LineIndent(Text(source), 4)

\* C21: with an if inside the body of an if, the elseif or else that follows
\* the inner body joins the chain of the if that stands at its indentation:
\* at the indentation of the outer if it becomes a member of the outer chain
\* and the inner if has no later member, at the indentation of the inner if it
\* becomes a member of the inner chain, and at no other indentation does a
\* tree come back in which it is a member of either chain
ElseJoinsIfOfItsIndentation ==
    (IsSome(parsed) /\ source.name = "dangling") =>
        LET result == Unwrap(parsed)
            ok == result.st = "ok"
        IN /\ ElseIndent = OuterIndent =>
                 /\ ok
                 /\ HasLaterMember(OuterIf(result))
                 /\ ~ HasLaterMember(InnerIf(OuterIf(result)))
                 /\ source.b = 0 => Unwrap(OuterIf(result).else_block).statements[1].line = 5
                 /\ source.b = 1 => OuterIf(result).ifs[2].line = 4
           /\ ElseIndent = InnerIndent =>
                 /\ ok
                 /\ HasLaterMember(InnerIf(OuterIf(result)))
                 /\ ~ HasLaterMember(OuterIf(result))
           /\ ElseIndent \notin {OuterIndent, InnerIndent} => ~ ok

ElseAttachedToOuterIf ==
    /\ IsSome(parsed)
    /\ source.name = "dangling"
    /\ ElseIndent = OuterIndent
    /\ source.b = 0
    /\ Unwrap(parsed).st = "ok"
    /\ IsSome(OuterIf(Unwrap(parsed)).else_block)
    /\ InnerIf(OuterIf(Unwrap(parsed))) = IfStatement(InnerIf(OuterIf(Unwrap(parsed))).ifs, None)
    /\ Len(InnerIf(OuterIf(Unwrap(parsed))).ifs) = 1

----------------------------------------------------------------------------
(* The nodes of a parse tree.                                               *)

\* a node and every node below it
RECURSIVE Nodes(_)
Nodes(node) ==
    {node} \cup
    CASE node.kind = "Function" -> Nodes(node.block)
      [] node.kind = "Block" ->
            UNION {Nodes(node.statements[i]) : i \in 1..Len(node.statements)}
      [] node.kind = "ReturnStatement" -> Nodes(Unwrap(node.expression))
      [] node.kind = "IfStatement" ->
            UNION {Nodes(node.ifs[i].condition) \cup Nodes(node.ifs[i].block) :
                      i \in 1..Len(node.ifs)}
            \cup (IF IsSome(node.else_block) THEN Nodes(Unwrap(node.else_block)) ELSE {})
      [] node.kind = "ForLoop" ->
            Nodes(node.bound0) \cup Nodes(node.bound1) \cup Nodes(node.block)
      [] node.kind = "WhileLoop" -> Nodes(node.condition) \cup Nodes(node.block)
      [] node.kind = "Expression" ->
            UNION {Nodes(node.children[i]) : i \in 1..Len(node.children)}
      [] OTHER -> {}

\* the nodes of the tree that a parse has returned
TreeNodes(result) == UNION {Nodes(result.tree[i]) : i \in 1..Len(result.tree)}

\* C22: in every tree that parse_document returns the second child of a
\* MemberAccess is an identifier
MemberIsIdentifier ==
    (IsSome(parsed) /\ Unwrap(parsed).st = "ok") =>
        \A node \in TreeNodes(Unwrap(parsed)) :
            (node.kind = "Expression" /\ node.expression_type = "MemberAccess") =>
                node.children[2].kind = "IdentifierValue"

----------------------------------------------------------------------------
(* The diagnostics of a parse.                                              *)

\* parse_document has returned: Ok with the tree or Err with the diagnostics
Returned(result) == result.st \in {"ok", "err"}

ErrorRecorded(result) ==
    \E i \in 1..Len(result.errors) : result.errors[i].error_type = "Error"

\* C23: parse_document returns Err exactly when a diagnostic of type Error
\* was recorded during the parse, and the list it returns then is not empty;
\* the list that comes with a tree holds diagnostics of type Warning and Info
\* only
FailsIffErrorRecorded ==
    (IsSome(parsed) /\ Returned(Unwrap(parsed))) =>
        LET result == Unwrap(parsed)
        IN /\ result.st = "err" <=> ErrorRecorded(result)
           /\ result.st = "err" => Len(result.errors) > 0
           /\ result.st = "ok" =>
                 \A i \in 1..Len(result.errors) :
                     result.errors[i].error_type \in {"Warning", "Info"}

ParseFailedWithErrors ==
    /\ IsSome(parsed)
    /\ Unwrap(parsed).st = "err"
    /\ Unwrap(parsed).tree = << >>
    /\ Len(Unwrap(parsed).errors) > 1
    /\ ErrorRecorded(Unwrap(parsed))

----------------------------------------------------------------------------
(* Calls with a number of arguments that is not the number of parameters.   *)

\* the arity program calls Add, which has two parameters, with s.a arguments
ArityMismatch == source.name = "arity" /\ source.a # Len(AddFn.arguments)

\* C24: a call of a user-defined function with a number of arguments that
\* differs from its number of parameters is a runtime error in both back
\* ends: the VM pushes no frame for the callee and does not return from
\* Test, and the interpreter fails without running the body
ArityMismatchIsError ==
    ArityMismatch =>
        /\ Len(stack) < 2
        /\ ~ VMReturned
        /\ IsSome(interp) => Unwrap(interp).st = "err"

----------------------------------------------------------------------------
(* Literals where lowering asks for an identifier.                          *)

\* C25: a call whose callee is a number literal and an assignment whose
\* left-hand side is a number literal both make lowering fail: the vm-run
\* command ends with a lowering error and no IR function is loaded
LiteralPlaceFailsLowering ==
    (source.name = "literal_place" /\ vm # "idle") =>
        /\ vm = "lowering_error"
        /\ DOMAIN functions = {}

----------------------------------------------------------------------------
(* The Branch instruction.                                                  *)

\* the top frame is about to execute a Branch whose condition is a literal or
\* a variable that holds a value
AtBranch ==
    /\ TopRunning
    /\ TopInstruction.op = "Branch"
    /\ TopInstruction.cond.k \in {"Value", "Variable"}
    /\ TopInstruction.cond.k = "Variable" =>
          TopInstruction.cond.var.name \in DOMAIN Last(stack).variables

\* C26: a step on a Branch whose condition is not a Boolean is a runtime
\* error and leaves the cursor of the frame on the Branch; with a Boolean the
\* step sets the cursor to the true target for true and to the false target
\* for false
BranchNeedsBoolean ==
    [][ (vm = "running" /\ host = "step" /\ AtBranch /\ interp' = interp) =>
           LET frame == Last(stack)
               instruction == TopInstruction
               cond == ArgumentValue(frame, instruction.cond)
           IN  IF cond.tag = "Boolean"
               THEN /\ vm' = "running"
                    /\ Len(stack') = Len(stack)
                    /\ Last(stack').line = IF cond = Boolean(TRUE)
                                           THEN instruction.true_branch
                                           ELSE instruction.false_branch
               ELSE /\ vm' = "error"
                    /\ Len(stack') = Len(stack)
                    /\ Last(stack').line = frame.line ]_vars

\* the run has ended in an error on a Branch whose condition holds an array
BranchOnArrayFailed ==
    /\ source = Source("branch_value", 3, 0, 0)
    /\ vm = "error"
    /\ AtBranch
    /\ ArgumentValue(Last(stack), TopInstruction.cond).tag = "Array"

----------------------------------------------------------------------------
(* An assignment as the right-hand side of an assignment.                   *)

\* C27: an assignment used as an expression yields the value that was
\* assigned: after x = p = e, x holds what p holds, in both back ends, also
\* when e is an index or a member expression over the variable that p assigns
AssignmentYieldsAssigned ==
    source.name = "assign_value" => BothReturn(Boolean(TRUE))

----------------------------------------------------------------------------
(* The audit entries of a member read.                                      *)

\* the operands that an instruction loads with report = true
LoadedOperands(instruction) ==
    CASE instruction.op = "Assign" -> {instruction.src}
      [] instruction.op = "BinaryOperation" -> {instruction.a, instruction.b}
      [] instruction.op = "Return" -> {instruction.value}
      [] OTHER -> {}

\* the operands MemberAccess(base, member) among them, base a variable
MemberReads(instruction) ==
    {value \in LoadedOperands(instruction) :
        value.k = "MemberAccess" /\ value.base.k = "Variable"}

\* the names of the entries of the audit lists of a frame
AuditNames(frame) ==
    {frame.last_read[i].var : i \in 1..Len(frame.last_read)}
    \cup {frame.last_updated[i].var : i \in 1..Len(frame.last_updated)}

\* C28: after a step of the VM that has read MemberAccess(base, member) the
\* audit lists of the frame hold an entry for the base variable and no entry
\* named after the member
MemberReadAuditsBase ==
    [][ (/\ vm = "running" /\ host = "step" /\ TopRunning /\ interp' = interp
         /\ vm' = "running" /\ Len(stack') = Len(stack)) =>
           \A value \in MemberReads(TopInstruction) :
               /\ value.base.var.name \in AuditNames(Last(stack'))
               /\ value.member.var.name \notin AuditNames(Last(stack')) ]_vars

----------------------------------------------------------------------------
(* Chains of binary operators of one level.                                 *)

\* x - y or x + y
Additive(i, x, y) == IF ChainType(i) = "Subtract" THEN x - y ELSE x + y

\* C29: the binary operators of one level group to the right: the tree of
\* 10 op1 3 op2 2, with op1 and op2 two operators of one level, is
\* 10 op1 (3 op2 2), and with additive operators both back ends return the
\* value of that grouping: 9 for 10 - 3 - 2
OperatorsGroupRight ==
    /\ (source.name = "chain" /\ IsSome(parsed)) =>
          /\ Unwrap(parsed).st = "ok"
          /\ Unwrap(parsed).tree = ChainTree(source.a, source.b)
    /\ source.name = "chain_run" =>
          BothReturn(Num(Additive(source.a, 10, Additive(source.b, 3, 2))))

\* vm-run has returned 9 for 10 - 3 - 2 and the interpreter has run
SubtractChainIsNine ==
    /\ source.name = "chain_run"
    /\ ChainType(source.a) = "Subtract"
    /\ ChainType(source.b) = "Subtract"
    /\ VMReturned
    /\ VMResult = Num(9)
    /\ InterpReturned
    /\ InterpResult.v = Num(9)

----------------------------------------------------------------------------
(* The keyword `to` of a for loop.                                          *)

\* the text of the token that stands where `to` belongs in a for_header text
InPlaceOfTo ==
    CASE source.a = 0 -> "to"
      [] source.a = 1 -> "until"
      [] source.a = 2 -> "3"
      [] OTHER -> ","

\* C30: a for header needs the keyword `to` between its bounds, after the
\* optional `down`: with another identifier or with a token that is no
\* identifier in its place the parser records the error of the missing keyword
\* and the parse fails
ForNeedsTo ==
    (source.name = "for_header" /\ IsSome(parsed) /\ InPlaceOfTo # "to") =>
        /\ Unwrap(parsed).st = "err"
        /\ \E i \in 1..Len(Unwrap(parsed).errors) :
              Unwrap(parsed).errors[i].message =
                  "expected keyword 'to', got '" \o InPlaceOfTo \o "'"

----------------------------------------------------------------------------
(* The end of a run of the VM.                                              *)

\* Runtime::single_step on the runtime as it stands
StepNow == Runtime_single_step(functions, stack, heap)

\* a step of a runtime that is done returns Ok and changes nothing
DoneStepIdle ==
    (vm = "running" /\ is_done(stack)) =>
        /\ StepNow.st = "ok"
        /\ StepNow.stack = stack
        /\ StepNow.heap = heap
        /\ is_done(StepNow.stack)

\* the step after Test's Return empties the stack without an error
ReturnedThenDone ==
    (VMReturned /\ host = "step" /\ run' = run /\ interp' = interp) =>
        /\ vm' = "running"
        /\ is_done(stack')
        /\ functions' = functions

\* C31: the step after the Return of the entry function's frame empties the
\* stack, so that is_done() is true, and from then on a step returns Ok,
\* changes nothing of the runtime and leaves is_done() true
DoneIsAbsorbing == [] DoneStepIdle /\ [][ReturnedThenDone]_vars

\* the run of Test has ended: the stack is empty after a step that returned
\* Ok(true)
RunIsDone == vm = "running" /\ is_done(stack) /\ host = "step" /\ flag /\ steps > 0

----------------------------------------------------------------------------
(* The cursors of the frames.                                               *)

\* the instructions of the function a frame runs
InstructionsOf(frame) == functions[frame.function].instructions

\* C32: the cursor of every frame of the stack is an index of an instruction
\* of the frame's function, in every state of every run of every lowered
\* program, so that no step ends in the panic of an instruction fetched out
\* of range
CursorsValid ==
    /\ \A i \in 1..Len(stack) :
          0 <= stack[i].line /\ stack[i].line < Len(InstructionsOf(stack[i]))
    /\ (vm = "running" /\ ~ is_done(stack)) => IsSome(next_instruction(functions, Last(stack)))

\* a Branch or a Goto has put the cursor of a running frame on the last
\* instruction of its function, the implicit Return
JumpedToLastInstruction ==
    /\ vm = "running"
    /\ ~ is_done(stack)
    /\ Last(stack).line = Len(InstructionsOf(Last(stack))) - 1
    /\ Last(stack).line > 0
    /\ ~ IsSome(Last(stack).return_value)
    /\ InstructionsOf(Last(stack))[Last(stack).line].op \in {"Branch", "Goto"}

----------------------------------------------------------------------------
(* The shape of the frame stack between two steps.                          *)

\* the instruction under the cursor of a frame
AtCursor(frame) == InstructionsOf(frame)[frame.line + 1]

\* frame waits at a FunctionCall of a function that is no builtin
SuspendedAtCall(frame) ==
    /\ frame.line < Len(InstructionsOf(frame))
    /\ AtCursor(frame).op = "FunctionCall"
    /\ AtCursor(frame).function.name \notin BuiltinNames
    /\ AtCursor(frame).function.name \in DOMAIN functions

\* C33: between two steps only the top frame can hold a return_value, every
\* frame below the top has its cursor on a FunctionCall of a function that
\* is no builtin, and no frame holds a passed_return: the step that fills the
\* slot consumes it
StackShape ==
    /\ \A i \in 1..(Len(stack) - 1) :
          /\ ~ IsSome(stack[i].return_value)
          /\ SuspendedAtCall(stack[i])
    /\ \A i \in 1..Len(stack) : ~ IsSome(stack[i].passed_return)

\* three frames deep, the top frame with its return_value set
ThreeFramesTopReturned ==
    /\ vm = "running"
    /\ Len(stack) = 3
    /\ IsSome(stack[3].return_value)
    /\ SuspendedAtCall(stack[1])
    /\ SuspendedAtCall(stack[2])

----------------------------------------------------------------------------
(* The frames below the top frame.                                          *)

\* the variable maps v and w agree on every name but `except`
AgreeBut(v, w, except) ==
    /\ DOMAIN v \ except = DOMAIN w \ except
    /\ \A n \in DOMAIN v \ except : v[n] = w[n]

\* frame i has the same variable map and the same cursor after the step
FrameUntouched(i) ==
    /\ stack'[i].variables = stack[i].variables
    /\ stack'[i].line = stack[i].line

\* the frame the popped frame returns to holds the returned value in the dest
\* of its FunctionCall, its cursor is one on, and nothing else of its
\* variables has changed
CallerResumed(i) ==
    LET dest == AtCursor(stack[i]).dest.name
    IN  /\ stack'[i].line = stack[i].line + 1
        /\ AgreeBut(stack'[i].variables, stack[i].variables, {dest})
        /\ dest \in DOMAIN stack'[i].variables
        /\ stack'[i].variables[dest] = Unwrap(Last(stack).return_value)

\* C34: a step of the VM leaves the variable map and the cursor of every
\* frame below the top as they were, also the step that pushes a frame on
\* the top; the step that pops the top frame changes in the frame below it
\* the dest variable of its FunctionCall and the cursor, and nothing else
FramesIsolated ==
    [][ (vm = "running" /\ host = "step" /\ run' = run /\ interp' = interp) =>
           /\ Len(stack') \in {Len(stack) - 1, Len(stack), Len(stack) + 1}
           /\ \A i \in 1..(Len(stack) - 1) : i < Len(stack') => FrameUntouched(i)
           /\ Len(stack') = Len(stack) + 1 => FrameUntouched(Len(stack))
           /\ (Len(stack') = Len(stack) - 1 /\ Len(stack') > 0) =>
                 CallerResumed(Len(stack')) ]_vars

\* Down(1) has taken the value Down(0) returned, with its own n still 1 and
\* the n of Down(2), the frame below it, still 2
CalleeReturnedToCaller ==
    /\ source = Source("recursive", 2, 0, 0)
    /\ vm = "running"
    /\ Len(stack) = 3
    /\ stack[2].variables["n"] = Num(2)
    /\ stack[3].variables["n"] = Num(1)
    /\ stack[3].line > 0
    /\ InstructionsOf(stack[3])[stack[3].line].op = "FunctionCall"
    /\ InstructionsOf(stack[3])[stack[3].line].dest.name \in DOMAIN stack[3].variables

----------------------------------------------------------------------------
(* A step of the VM that returns an error.                                  *)

\* the step from this state to the next is a single_step that returned Err
ErrStep == vm = "running" /\ host = "step" /\ vm' = "error"

\* C35: a step of the VM that returns an error leaves the depth of the
\* stack, the cursor and the variables of every frame and the cells of every
\* array as they were before the step
ErrorStepChangesNothing ==
    [][ ErrStep =>
           /\ Len(stack') = Len(stack)
           /\ \A i \in 1..Len(stack) :
                 /\ stack'[i].line = stack[i].line
                 /\ stack'[i].variables = stack[i].variables
           /\ heap' = heap ]_vars

\* Fail, called by Test with an array, has ended vm-run with the error of its
\* second statement, after it had assigned y
FailedInsideCall ==
    /\ source.name = "failing_step"
    /\ vm = "error"
    /\ Len(stack) = 2
    /\ stack[2].function = "Fail"
    /\ stack[2].line > 0
    /\ stack[2].variables["y"] = Num(1)
    /\ "x" \in DOMAIN stack[1].variables

----------------------------------------------------------------------------
(* The bounds of a for loop.                                                *)

\* C36: the second bound of a for loop is evaluated once, before the first
\* iteration: the loop `for k = 1 to b`, with b a variable, an array element
\* or a heapsize of value 2 that the body sets to 1, runs its body twice in
\* the VM as in the interpreter
ForBoundsFixedAtEntry == source.name = "for_bound" => BothReturn(Num(2))

----------------------------------------------------------------------------
(* A call without arguments.                                                *)

\* the expression that the return statement of an empty_call text returns
ReturnedCall(result) == Unwrap(result.tree[1].block.statements[1].expression)

\* C37: the call `Zero()` parses without an error into a FunctionCall whose
\* only child is the callee
EmptyCallParses ==
    (source = Source("empty_call", 0, 0, 0) /\ IsSome(parsed)) =>
        /\ Unwrap(parsed).st = "ok"
        /\ Unwrap(parsed).errors = << >>
        /\ ReturnedCall(Unwrap(parsed)) =
              Expression("FunctionCall", 1, << IdentifierValue(1, "Zero") >>)

----------------------------------------------------------------------------
(* A line that leaves the blocks it stands in.                              *)

\* in the dedent texts the statement of the inner body is on line 3 and the
\* statement after it on line 4
BodyIndent == LineIndent(Text(source), 3)

DedentIndent == LineIndent(Text(source), 4)

\* C38: a line inside nested blocks whose Indentation is shorter than the
\* level of the block it follows and is the level of no enclosing block makes
\* parse_document return the diagnostics and no tree; at the level of the
\* block or of an enclosing block the text parses
MismatchedDedentFails ==
    (source.name = "dedent" /\ IsSome(parsed)) =>
        /\ (/\ 0 < DedentIndent
            /\ DedentIndent < BodyIndent
            /\ DedentIndent \notin {OuterIndent, InnerIndent}) =>
                /\ Unwrap(parsed).st = "err"
                /\ Unwrap(parsed).tree = << >>
                /\ Unwrap(parsed).errors # << >>
        /\ DedentIndent \in {OuterIndent, InnerIndent, BodyIndent} =>
                Unwrap(parsed).st = "ok"

\* the statement stood between the levels of the two ifs and the parse has
\* failed with the error of an unexpected indentation level
DedentBetweenLevelsFailed ==
    /\ source.name = "dedent"
    /\ OuterIndent < DedentIndent
    /\ DedentIndent < InnerIndent
    /\ IsSome(parsed)
    /\ Unwrap(parsed).st = "err"
    /\ \E i \in 1..Len(Unwrap(parsed).errors) :
          Unwrap(parsed).errors[i].message = "unexpected indentation level"

----------------------------------------------------------------------------
(* The statements the interpreter executes.                                 *)

\* C39: the interpreter ends every program with a value or with a runtime
\* error, whatever the kinds of its statements: it never aborts without a
\* result
InterpreterNeverAborts == Interpreted => InterpResult.st \in {"ok", "err"}

====
